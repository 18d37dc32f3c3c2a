--------------------------- MODULE LogFormatProofs ---------------------------
(***************************************************************************)
(* Proofs about the log writer, for all block and header sizes, records and  *)
(* threads.                                                                  *)
(***************************************************************************)
EXTENDS LogFormat, TLAPS

-----------------------------------------------------------------------------
(* Quotients and remainders. *)

LEMMA DivMod ==
  ASSUME NEW b \in Nat \ {0}, NEW a \in Nat
  PROVE  /\ a \div b \in Nat /\ a % b \in 0 .. (b - 1)
         /\ a = b * (a \div b) + (a % b)
OBVIOUS

LEMMA DivModLess ==
  ASSUME NEW b \in Nat \ {0}, NEW a \in Nat, a >= b
  PROVE  (a - b) \div b = (a \div b) - 1 /\ (a - b) % b = a % b
<1>1. (a - b) \div b = (a \div b) - 1
  OBVIOUS
<1>2. a - b \in Nat
  OBVIOUS
<1>3. a - b = b * ((a - b) \div b) + ((a - b) % b) /\ (a - b) % b \in Nat
  BY <1>2, DivMod
<1>4. a = b * (a \div b) + (a % b) /\ a % b \in Nat /\ a \div b \in Nat
  BY DivMod
<1>5. PICK q, x, y : q = a \div b /\ x = (a - b) % b /\ y = a % b
  OBVIOUS
<1>6. a - b = b * (q - 1) + x /\ a = b * q + y /\ q \in Nat /\ x \in Nat /\ y \in Nat
  BY <1>1, <1>3, <1>4, <1>5
<1>7. b * (q - 1) = b * q - b
  BY <1>6
<1>8. x = y
  <2>1. PICK c : c = b * q /\ c \in Int
    BY <1>6
  <2> QED
    BY <1>6, <1>7, <2>1
<1> QED
  BY <1>1, <1>5, <1>8

LEMMA AlignedUp ==
  ASSUME NEW b \in Nat \ {0}, NEW a \in Nat
  PROVE  (a + (b - (a % b))) % b = 0
OBVIOUS

-----------------------------------------------------------------------------
(* The blocks of the log. *)

LEMMA LogSizes ==
  /\ HeaderSize \in Nat \ {0} /\ BlockSize \in Nat \ {0} /\ HeaderSize < BlockSize
  /\ BlockSize - HeaderSize \in Nat \ {0} /\ Sizes \subseteq Nat
BY LogAssumption

LEMMA LeftInBlock ==
  ASSUME NEW o \in Nat
  PROVE  Left(o) \in 1 .. BlockSize /\ o + Left(o) \in Nat /\ Left(o + Left(o)) = BlockSize
<1>1. o % BlockSize \in 0 .. (BlockSize - 1)
  BY LogSizes, DivMod
<1>2. Left(o) \in 1 .. BlockSize /\ o + Left(o) \in Nat
  BY <1>1, LogSizes DEF Left
<1>3. (o + Left(o)) % BlockSize = 0
  BY LogSizes, AlignedUp DEF Left
<1>4. Left(o + Left(o)) = BlockSize
  BY <1>3, LogSizes DEF Left
<1> QED
  BY <1>2, <1>4

\* A record begins where a header fits, and rounding up is done once.
LEMMA RoundedUp ==
  ASSUME NEW o \in Nat
  PROVE  /\ RoundUp(o) \in Nat /\ o <= RoundUp(o) /\ HeaderSize <= Left(RoundUp(o))
         /\ RoundUp(RoundUp(o)) = RoundUp(o)
         /\ RoundUp(o) = o + (IF Left(o) < HeaderSize THEN Left(o) ELSE 0)
<1>1. Left(o) \in Nat /\ o + Left(o) \in Nat /\ Left(o + Left(o)) = BlockSize
  BY LeftInBlock
<1>2. CASE Left(o) < HeaderSize
  <2>1. RoundUp(o) = o + Left(o)
    BY <1>2 DEF RoundUp
  <2>2. RoundUp(o + Left(o)) = o + Left(o)
    BY <1>1, LogSizes DEF RoundUp
  <2> QED
    BY <1>1, <1>2, <2>1, <2>2, LogSizes
<1>3. CASE ~(Left(o) < HeaderSize)
  <2>1. RoundUp(o) = o
    BY <1>3 DEF RoundUp
  <2> QED
    BY <1>1, <1>3, <2>1, LogSizes
<1> QED
  BY <1>2, <1>3

-----------------------------------------------------------------------------
(* Where a record ends. *)

LEMMA ComputedSize ==
  ASSUME NEW s \in Nat, NEW m \in Nat
  PROVE  ComputeRecordSize(s, m) \in Nat /\ s + HeaderSize <= ComputeRecordSize(s, m)
<1>1. PICK p, b, q, x : /\ p = BlockSize - HeaderSize /\ b = BlockSize
                        /\ q = m \div p /\ x = m % p
  OBVIOUS
<1>2. b \in Nat /\ q \in Nat /\ x \in Nat
  BY <1>1, LogSizes, DivMod
<1>3. q * b \in Nat
  BY <1>2
<1>4. ComputeRecordSize(s, m) = s + q * b + HeaderSize + x
  BY <1>1 DEF ComputeRecordSize
<1>5. PICK y : y = q * b
  OBVIOUS
<1> QED
  BY <1>2, <1>3, <1>4, <1>5, LogSizes

LEMMA EndFits ==
  ASSUME NEW o \in Nat, NEW n \in Nat, HeaderSize + n <= Left(o)
  PROVE  RecordEnd(o, n) = o + HeaderSize + n
<1>1. RoundUp(o) = o
  BY LeftInBlock, LogSizes DEF RoundUp
<1> QED
  BY <1>1 DEF RecordEnd

LEMMA EndSpills ==
  ASSUME NEW o \in Nat, NEW n \in Nat, HeaderSize <= Left(o), ~(HeaderSize + n <= Left(o))
  PROVE  /\ n + HeaderSize - Left(o) \in Nat \ {0}
         /\ RecordEnd(o, n) = ComputeRecordSize(o + Left(o), n + HeaderSize - Left(o))
<1>1. RoundUp(o) = o
  BY LeftInBlock, LogSizes DEF RoundUp
<1> QED
  BY <1>1, LeftInBlock, LogSizes DEF RecordEnd

LEMMA EndRounded ==
  ASSUME NEW o \in Nat, NEW n \in Nat
  PROVE  RecordEnd(RoundUp(o), n) = RecordEnd(o, n)
BY RoundedUp DEF RecordEnd

\* The end of a record is beyond its first header.
LEMMA EndBeyond ==
  ASSUME NEW o \in Nat, NEW n \in Nat
  PROVE  RecordEnd(o, n) \in Nat /\ RoundUp(o) + HeaderSize <= RecordEnd(o, n)
<1>1. PICK s : s = RoundUp(o)
  OBVIOUS
<1>2. s \in Nat /\ HeaderSize <= Left(s) /\ RecordEnd(s, n) = RecordEnd(o, n)
  BY <1>1, RoundedUp, EndRounded
<1>3. CASE HeaderSize + n <= Left(s)
  BY <1>1, <1>2, <1>3, EndFits, LogSizes
<1>4. CASE ~(HeaderSize + n <= Left(s))
  <2>1. PICK l, m : l = Left(s) /\ m = n + HeaderSize - Left(s)
    OBVIOUS
  <2>2. l \in Nat /\ s + l \in Nat /\ m \in Nat /\ RecordEnd(s, n) = ComputeRecordSize(s + l, m)
    BY <1>2, <1>4, <2>1, EndSpills, LeftInBlock
  <2>3. RecordEnd(s, n) \in Nat /\ s + l + HeaderSize <= RecordEnd(s, n)
    BY <2>2, ComputedSize
  <2> QED
    BY <1>1, <1>2, <2>2, <2>3, LogSizes
<1> QED
  BY <1>3, <1>4

\* What is left of a record at the start of a block ends no later than
\* ComputeRecordSize says: they differ by a header when it fills the block.
LEMMA BlockStartEnd ==
  ASSUME NEW s \in Nat, Left(s) = BlockSize, NEW m \in Nat \ {0}
  PROVE  RecordEnd(s, m) <= ComputeRecordSize(s, m)
<1>1. PICK b, h, p : b = BlockSize /\ h = HeaderSize /\ p = BlockSize - HeaderSize
  OBVIOUS
<1>2. b \in Nat \ {0} /\ h \in Nat \ {0} /\ p \in Nat \ {0} /\ b = h + p
  BY <1>1, LogSizes
<1>3. PICK q, x : q = m \div p /\ x = m % p
  OBVIOUS
<1>4. q \in Nat /\ x \in 0 .. (p - 1) /\ m = p * q + x
  BY <1>2, <1>3, DivMod
<1>5. ComputeRecordSize(s, m) = s + q * b + h + x
  BY <1>1, <1>3 DEF ComputeRecordSize
<1>6. CASE h + m <= b
  <2>1. RecordEnd(s, m) = s + h + m
    BY <1>1, <1>6, EndFits
  <2>2. CASE m < p
    <3>1. q = 0 /\ x = m
      BY <1>2, <1>3, <2>2
    <3> QED
      BY <1>2, <1>5, <2>1, <3>1
  <2>3. CASE m = p
    <3>1. q = 1 /\ x = 0
      BY <1>2, <1>3, <2>3
    <3> QED
      BY <1>2, <1>5, <2>1, <2>3, <3>1
  <2> QED
    BY <1>2, <1>6, <2>2, <2>3
<1>7. CASE ~(h + m <= b)
  <2>1. m - p \in Nat \ {0} /\ m >= p /\ m + h - b = m - p
    BY <1>2, <1>7
  <2>2. RecordEnd(s, m) = ComputeRecordSize(s + b, m - p)
    BY <1>1, <1>2, <1>7, <2>1, EndSpills
  <2>3. (m - p) \div p = q - 1 /\ (m - p) % p = x
    BY <1>2, <1>3, <2>1, DivModLess
  <2>4. ComputeRecordSize(s + b, m - p) = (s + b) + (q - 1) * b + h + x
    BY <1>1, <2>3 DEF ComputeRecordSize
  <2>5. b + (q - 1) * b = q * b /\ q * b \in Int
    BY <1>2, <1>4
  <2>6. PICK y, z : y = q * b /\ z = (q - 1) * b
    OBVIOUS
  <2> QED
    BY <1>2, <1>4, <1>5, <2>2, <2>4, <2>5, <2>6
<1> QED
  BY <1>6, <1>7

-----------------------------------------------------------------------------
(* The inductive invariant.  A thread owns the bytes from where it reserved to *)
(* End, and has written those up to Progress at most.                         *)

AdderStates ==
  [pc : {"pad", "head", "data", "done", "failed"}, start : Nat, size : Nat, offset : Nat,
   left : Nat, part : Nat, len : Nat, type : {"none", "full", "first", "middle", "last"}]

End(r) == RecordEnd(r.start, r.size)

Progress(r) == IF r.pc \in {"data", "failed"} THEN r.offset + HeaderSize ELSE r.offset

\* What remains to be written ends within the reservation, and the fragment at
\* hand is the rest of the record or fills the block.
AdderOK(r) ==
  /\ r \in AdderStates /\ r.start <= r.offset
  /\ r.pc \in {"pad", "head", "data", "failed"} => RecordEnd(r.offset, r.left) <= End(r)
  /\ r.pc \in {"head", "data", "failed"} =>
       /\ HeaderSize + r.len <= Left(r.offset) /\ r.len <= r.left
       /\ r.len = r.left \/ HeaderSize + r.len = Left(r.offset)
  /\ r.pc = "done" => r.offset <= End(r)

Busy(a) == adder[a].pc # "idle"

HeaderOf(a, r) == [at |-> r.offset, len |-> HeaderSize, kind |-> "head", type |-> r.type,
                   size |-> r.len, data |-> <<a, r.part>>]

Apart(r, q) == End(r) <= q.start \/ End(q) <= r.start

Owns(r, w) == r.start <= w.at /\ w.at + w.len <= Progress(r)

Disjoint(v, w) == v.at + v.len <= w.at \/ w.at + w.len <= v.at

Readable(w, f) ==
  /\ w.at \in Nat /\ w.len \in Nat
  /\ w.kind = "head" => HeaderSize + w.size <= Left(w.at)
  /\ w.kind = "zero" => w.len = Left(w.at) /\ w.len < HeaderSize
  /\ w.kind = "data" => \E h \in f : /\ h.kind = "head" /\ h.data = w.data
                                     /\ h.at + HeaderSize = w.at /\ h.size = w.len

LogInv ==
  /\ tail \in Nat /\ adder \in [Adders -> {[pc |-> "idle"]} \cup AdderStates]
  /\ \A a \in Adders : Busy(a) => AdderOK(adder[a]) /\ End(adder[a]) <= tail
  /\ \A a, b \in Adders : a # b /\ Busy(a) /\ Busy(b) => Apart(adder[a], adder[b])
  /\ \A w \in file : Readable(w, file)
  /\ \A w \in file : \E a \in Adders : Busy(a) /\ Owns(adder[a], w)
  /\ \A v, w \in file : v = w \/ Disjoint(v, w)
  /\ \A a \in Adders : adder[a].pc = "data" => HeaderOf(a, adder[a]) \in file

-----------------------------------------------------------------------------
\* A thread never writes beyond its reservation.
LEMMA ProgressWithin ==
  ASSUME NEW r, AdderOK(r)
  PROVE  /\ r.start \in Nat /\ r.offset \in Nat /\ r.left \in Nat /\ r.len \in Nat
         /\ Progress(r) \in Nat /\ r.start <= Progress(r)
         /\ End(r) \in Nat /\ Progress(r) <= End(r)
<1>1. /\ r.start \in Nat /\ r.size \in Nat /\ r.offset \in Nat /\ r.left \in Nat /\ r.len \in Nat
      /\ r.pc \in {"pad", "head", "data", "done", "failed"} /\ r.start <= r.offset
  BY DEF AdderOK, AdderStates
<1>2. End(r) \in Nat
  BY <1>1, EndBeyond DEF End
<1>3. Progress(r) \in Nat /\ r.start <= Progress(r)
  BY <1>1, LogSizes DEF Progress
<1>4. Progress(r) <= End(r)
  <2>1. CASE r.pc = "done"
    BY <2>1 DEF AdderOK, Progress
  <2>2. CASE r.pc # "done"
    <3>1. RecordEnd(r.offset, r.left) <= End(r)
      BY <1>1, <2>2 DEF AdderOK
    <3>2. PICK e, u : e = RecordEnd(r.offset, r.left) /\ u = RoundUp(r.offset)
      OBVIOUS
    <3>3. e \in Nat /\ u \in Nat /\ r.offset <= u /\ u + HeaderSize <= e /\ e <= End(r)
      BY <1>1, <3>1, <3>2, EndBeyond, RoundedUp
    <3>4. Progress(r) <= r.offset + HeaderSize
      BY <1>1, LogSizes DEF Progress
    <3> QED
      BY <1>1, <1>2, <1>3, <3>3, <3>4, LogSizes
  <2> QED
    BY <2>1, <2>2
<1> QED
  BY <1>1, <1>2, <1>3, <1>4

\* Writes of two threads, or of one thread one after the other, share no byte.
LEMMA OwnersApart ==
  ASSUME NEW r, AdderOK(r), NEW q, AdderOK(q), Apart(r, q), NEW v, NEW w,
         v.at \in Nat, v.len \in Nat, w.at \in Nat, w.len \in Nat, Owns(r, v), Owns(q, w)
  PROVE  Disjoint(v, w)
<1>1. PICK a, b, c, d : a = v.at /\ b = v.len /\ c = w.at /\ d = w.len
  OBVIOUS
<1>2. PICK rs, rp, re, qs, qp, qe : /\ rs = r.start /\ rp = Progress(r) /\ re = End(r)
                                    /\ qs = q.start /\ qp = Progress(q) /\ qe = End(q)
  OBVIOUS
<1>3. /\ rs \in Nat /\ rp \in Nat /\ re \in Nat /\ rp <= re
      /\ qs \in Nat /\ qp \in Nat /\ qe \in Nat /\ qp <= qe
  BY <1>2, ProgressWithin
<1>4. /\ a \in Nat /\ b \in Nat /\ c \in Nat /\ d \in Nat
      /\ rs <= a /\ a + b <= rp /\ qs <= c /\ c + d <= qp
  BY <1>1, <1>2 DEF Owns
<1>5. re <= qs \/ qe <= rs
  BY <1>2 DEF Apart
<1>6. a + b <= c \/ c + d <= a
  BY <1>3, <1>4, <1>5
<1> QED
  BY <1>1, <1>6 DEF Disjoint

(***************************************************************************)
(* A thread that goes on within its reservation, writing at most one piece   *)
(* beyond what it has written before.                                        *)
(***************************************************************************)
Advances(a, q, W) ==
  /\ AdderOK(q) /\ q.pc # "idle" /\ q.start = adder[a].start /\ q.size = adder[a].size
  /\ Progress(adder[a]) <= Progress(q)
  /\ \A v, w \in W : v = w
  /\ \A w \in W : /\ Readable(w, file) /\ Progress(adder[a]) <= w.at
                  /\ w.at + w.len <= Progress(q)
  /\ q.pc = "data" => HeaderOf(a, q) \in file \cup W

LEMMA GoesOn ==
  ASSUME LogInv, NEW a \in Adders, NEW q, NEW W, Busy(a), Advances(a, q, W),
         adder' = [adder EXCEPT ![a] = q], tail' = tail, file' = file \cup W
  PROVE  LogInv'
<1> USE DEF Advances
<1>1. /\ adder'[a] = q /\ \A b \in Adders \ {a} : adder'[b] = adder[b]
      /\ \A b \in Adders : Busy(b)' <=> Busy(b)
  BY DEF LogInv, Busy
<1>2. tail' \in Nat /\ adder' \in [Adders -> {[pc |-> "idle"]} \cup AdderStates]
  BY DEF LogInv, AdderOK
<1>3. AdderOK(adder[a]) /\ End(q) = End(adder[a]) /\ End(adder[a]) <= tail
  BY DEF LogInv, End
<1>4. ASSUME NEW b \in Adders, Busy(b) PROVE AdderOK(adder'[b]) /\ End(adder'[b]) <= tail
  <2>1. CASE b = a
    BY <1>1, <1>3, <2>1
  <2>2. CASE b # a
    BY <1>1, <1>4, <2>2 DEF LogInv
  <2> QED
    BY <2>1, <2>2
<1>5. ASSUME NEW b \in Adders, NEW c \in Adders, b # c, Busy(b), Busy(c)
      PROVE  Apart(adder'[b], adder'[c])
  <2>1. Apart(adder[b], adder[c])
    BY <1>5 DEF LogInv
  <2>2. /\ End(adder'[b]) = End(adder[b]) /\ adder'[b].start = adder[b].start
        /\ End(adder'[c]) = End(adder[c]) /\ adder'[c].start = adder[c].start
    BY <1>1, <1>3
  <2> QED
    BY <2>1, <2>2 DEF Apart
<1>6. ASSUME NEW w, Readable(w, file) PROVE Readable(w, file')
  BY <1>6 DEF Readable
<1>7. \A w \in file' : Readable(w, file')
  BY <1>6 DEF LogInv
<1>8. ASSUME NEW w \in file, NEW b \in Adders, Busy(b), Owns(adder[b], w)
      PROVE  Owns(adder'[b], w)
  <2>1. CASE b # a
    BY <1>1, <1>8, <2>1
  <2>2. CASE b = a
    <3>1. PICK p, o, e : p = Progress(adder[a]) /\ o = Progress(q) /\ e = w.at + w.len
      OBVIOUS
    <3>2. p \in Nat /\ o \in Nat /\ e \in Nat /\ p <= o /\ e <= p /\ q.start <= w.at
      BY <1>3, <1>8, <2>2, <3>1, ProgressWithin DEF Owns, LogInv, Readable
    <3>3. e <= o
      BY <3>2
    <3> QED
      BY <1>1, <2>2, <3>1, <3>2, <3>3 DEF Owns
  <2> QED
    BY <2>1, <2>2
<1>9. ASSUME NEW w \in W PROVE Owns(q, w) /\ w.at \in Nat /\ w.len \in Nat
  <2>1. w.at \in Nat /\ w.len \in Nat /\ w.at + w.len <= Progress(q)
    BY DEF Readable
  <2>2. PICK p, s : p = Progress(adder[a]) /\ s = adder[a].start
    OBVIOUS
  <2>3. p \in Nat /\ s \in Nat /\ s <= p /\ p <= w.at
    BY <1>3, <2>2, ProgressWithin
  <2>4. s <= w.at
    BY <2>1, <2>3
  <2> QED
    BY <2>1, <2>2, <2>4 DEF Owns
<1>10. ASSUME NEW w \in file' PROVE \E b \in Adders : Busy(b)' /\ Owns(adder'[b], w)
  <2>1. CASE w \in file
    BY <1>1, <1>8, <2>1 DEF LogInv
  <2>2. CASE w \in W
    BY <1>1, <1>9, <2>2
  <2> QED
    BY <2>1, <2>2
<1>11. ASSUME NEW v \in file, NEW w \in W PROVE Disjoint(v, w) /\ Disjoint(w, v)
  <2>1. PICK b \in Adders : Busy(b) /\ Owns(adder[b], v)
    BY DEF LogInv
  <2>2. v.at \in Nat /\ v.len \in Nat
    BY DEF LogInv, Readable
  <2>3. CASE b = a
    <3>1. PICK p : p = Progress(adder[a])
      OBVIOUS
    <3>2. p \in Nat /\ v.at + v.len <= p /\ p <= w.at
      BY <1>3, <2>1, <2>3, <3>1, ProgressWithin DEF Owns
    <3>3. v.at + v.len <= w.at
      BY <1>9, <2>2, <3>2
    <3> QED
      BY <3>3 DEF Disjoint
  <2>4. CASE b # a
    <3>1. AdderOK(adder[b]) /\ Apart(adder[b], adder[a])
      BY <2>1, <2>4 DEF LogInv
    <3>2. Apart(adder[b], q)
      BY <1>3, <3>1 DEF Apart
    <3>3. Disjoint(v, w)
      BY <1>9, <2>1, <2>2, <3>1, <3>2, OwnersApart
    <3> QED
      BY <3>3 DEF Disjoint
  <2> QED
    BY <2>3, <2>4
<1>12. ASSUME NEW v \in file', NEW w \in file' PROVE v = w \/ Disjoint(v, w)
  <2>1. CASE v \in file /\ w \in file
    BY <2>1 DEF LogInv
  <2>2. CASE v \in W /\ w \in W
    BY <2>2
  <2> QED
    BY <1>11, <2>1, <2>2
<1>13. ASSUME NEW b \in Adders, adder'[b].pc = "data" PROVE HeaderOf(b, adder'[b]) \in file'
  <2>1. CASE b = a
    BY <1>1, <1>13, <2>1
  <2>2. CASE b # a
    BY <1>1, <1>13, <2>2 DEF LogInv
  <2> QED
    BY <2>1, <2>2
<1>14. \A b \in Adders : Busy(b)' => AdderOK(adder'[b]) /\ End(adder'[b]) <= tail'
  BY <1>1, <1>4
<1>15. \A b, c \in Adders : b # c /\ Busy(b)' /\ Busy(c)' => Apart(adder'[b], adder'[c])
  BY <1>1, <1>5
<1> QED
  BY <1>2, <1>7, <1>10, <1>12, <1>13, <1>14, <1>15
     DEF LogInv, AdderOK, End, Apart, Owns, Progress, Disjoint, Readable, HeaderOf

(***************************************************************************)
(* Each step of AddRecord keeps the invariant.                              *)
(***************************************************************************)
LEMMA ReserveKeeps ==
  ASSUME LogInv, NEW a \in Adders, Reserve(a)
  PROVE  LogInv'
<1>1. PICK n \in Sizes :
        /\ tail' = RecordEnd(tail, n)
        /\ adder' = [adder EXCEPT ![a] = [pc |-> "pad", start |-> tail, size |-> n, offset |-> tail,
                                          left |-> n, part |-> 0, len |-> 0, type |-> "none"]]
  BY DEF Reserve
<1>2. adder[a].pc = "idle" /\ file' = file
  BY DEF Reserve
<1>3. PICK q : q = [pc |-> "pad", start |-> tail, size |-> n, offset |-> tail,
                    left |-> n, part |-> 0, len |-> 0, type |-> "none"]
  OBVIOUS
<1>4. n \in Nat /\ tail \in Nat
  BY LogSizes DEF LogInv
<1>5. tail' \in Nat /\ tail <= tail'
  <2>1. PICK u, e : u = RoundUp(tail) /\ e = RecordEnd(tail, n)
    OBVIOUS
  <2>2. u \in Nat /\ tail <= u /\ e \in Nat /\ u + HeaderSize <= e
    BY <1>4, <2>1, RoundedUp, EndBeyond
  <2> QED
    BY <1>1, <1>4, <2>1, <2>2, LogSizes
<1>6. /\ q \in AdderStates /\ q.pc = "pad" /\ q.start = tail /\ q.offset = tail
      /\ q.left = n /\ q.size = n
  BY <1>3, <1>4 DEF AdderStates
<1>7. AdderOK(q) /\ End(q) = tail'
  BY <1>1, <1>4, <1>5, <1>6 DEF AdderOK, End
<1>8. /\ adder'[a] = q /\ \A b \in Adders \ {a} : adder'[b] = adder[b]
      /\ adder' \in [Adders -> {[pc |-> "idle"]} \cup AdderStates]
  BY <1>1, <1>3, <1>6 DEF LogInv
<1>9. Busy(a)' /\ ~Busy(a) /\ \A b \in Adders \ {a} : Busy(b)' <=> Busy(b)
  BY <1>2, <1>6, <1>8 DEF Busy
<1>10. ASSUME NEW b \in Adders \ {a}, Busy(b)
       PROVE  AdderOK(adder[b]) /\ End(adder[b]) <= tail /\ End(adder[b]) <= tail'
  <2>1. AdderOK(adder[b]) /\ End(adder[b]) <= tail
    BY <1>10 DEF LogInv
  <2>2. End(adder[b]) \in Nat
    BY <2>1, ProgressWithin
  <2> QED
    BY <1>4, <1>5, <2>1, <2>2
<1>11. \A b \in Adders : Busy(b)' => AdderOK(adder'[b]) /\ End(adder'[b]) <= tail'
  BY <1>5, <1>7, <1>8, <1>9, <1>10
<1>12. ASSUME NEW b \in Adders, NEW c \in Adders, b # c, Busy(b)', Busy(c)'
       PROVE  Apart(adder'[b], adder'[c])
  <2>1. CASE b = a
    BY <1>6, <1>8, <1>9, <1>10, <1>12, <2>1 DEF Apart
  <2>2. CASE c = a
    BY <1>6, <1>8, <1>9, <1>10, <1>12, <2>2 DEF Apart
  <2>3. CASE b # a /\ c # a
    BY <1>8, <1>9, <1>12, <2>3 DEF LogInv
  <2> QED
    BY <2>1, <2>2, <2>3
<1>13. \A w \in file : \E b \in Adders : Busy(b)' /\ Owns(adder'[b], w)
  BY <1>8, <1>9 DEF LogInv
<1>14. \A b \in Adders : adder'[b].pc = "data" => HeaderOf(b, adder'[b]) \in file
  BY <1>6, <1>8 DEF LogInv
<1>15. /\ \A w \in file : Readable(w, file)
       /\ \A v, w \in file : v = w \/ Disjoint(v, w)
  BY DEF LogInv
<1> QED
  BY <1>2, <1>5, <1>8, <1>11, <1>12, <1>13, <1>14, <1>15 DEF LogInv

LEMMA FragmentKeeps ==
  ASSUME LogInv, NEW a \in Adders, Fragment(a)
  PROVE  LogInv'
<1>1. PICK r : r = adder[a]
  OBVIOUS
<1>2. PICK pad, at, avail, len :
        /\ pad = IF Left(r.offset) < HeaderSize THEN Left(r.offset) ELSE 0
        /\ at = r.offset + pad /\ avail = Left(at) - HeaderSize
        /\ len = IF r.left < avail THEN r.left ELSE avail
  OBVIOUS
<1>3. PICK type \in {"full", "first", "middle", "last"} :
        adder' = [adder EXCEPT ![a] = [r EXCEPT !.pc = "head", !.offset = at, !.len = len,
                                                !.type = type]]
  BY <1>1, <1>2 DEF Fragment
<1>4. /\ r.pc = "pad" /\ tail' = tail
      /\ file' = IF pad = 0 THEN file
                 ELSE file \cup {[at |-> r.offset, len |-> pad, kind |-> "zero"]}
  BY <1>1, <1>2 DEF Fragment
<1>5. Busy(a) /\ AdderOK(r)
  BY <1>1, <1>4 DEF LogInv, Busy
<1>6. /\ r \in AdderStates /\ r.start \in Nat /\ r.offset \in Nat /\ r.left \in Nat
      /\ r.start <= r.offset /\ RecordEnd(r.offset, r.left) <= End(r)
  BY <1>4, <1>5 DEF AdderOK, AdderStates
<1>7. pad \in Nat /\ Left(r.offset) \in Nat
  BY <1>2, <1>6, LeftInBlock
<1>8. at = RoundUp(r.offset)
  BY <1>2, <1>6, RoundedUp
<1>9. /\ at \in Nat /\ r.offset <= at /\ HeaderSize <= Left(at)
      /\ RecordEnd(at, r.left) <= End(r)
  BY <1>6, <1>8, RoundedUp, EndRounded
<1>10. Left(at) \in Nat
  BY <1>9, LeftInBlock
<1>11. /\ len \in Nat /\ len <= r.left /\ HeaderSize + len <= Left(at)
       /\ len = r.left \/ HeaderSize + len = Left(at)
  BY <1>2, <1>6, <1>9, <1>10, LogSizes
<1>12. PICK q : q = [r EXCEPT !.pc = "head", !.offset = at, !.len = len, !.type = type]
  OBVIOUS
<1>13. /\ q \in AdderStates /\ q.pc = "head" /\ q.offset = at /\ q.len = len
       /\ q.start = r.start /\ q.size = r.size /\ q.left = r.left
  BY <1>6, <1>9, <1>11, <1>12 DEF AdderStates
<1>14. End(q) = End(r)
  BY <1>13 DEF End
<1>15. r.start <= at
  BY <1>6, <1>9
<1>16. AdderOK(q)
  BY <1>9, <1>11, <1>13, <1>14, <1>15 DEF AdderOK
<1>17. Progress(r) = r.offset /\ Progress(q) = at
  BY <1>4, <1>13 DEF Progress
<1>18. PICK W : W = IF pad = 0 THEN {} ELSE {[at |-> r.offset, len |-> pad, kind |-> "zero"]}
  OBVIOUS
<1>19. file' = file \cup W /\ \A v, w \in W : v = w
  BY <1>4, <1>18
<1>20. ASSUME NEW w \in W
       PROVE  Readable(w, file) /\ Progress(r) <= w.at /\ w.at + w.len <= Progress(q)
  <2>1. w.at = r.offset /\ w.len = pad /\ w.kind = "zero" /\ pad # 0
    BY <1>18
  <2>2. pad = Left(r.offset) /\ pad < HeaderSize
    BY <1>2, <2>1
  <2>3. Readable(w, file)
    BY <1>6, <1>7, <2>1, <2>2 DEF Readable
  <2>4. r.offset <= r.offset /\ r.offset + pad <= at
    BY <1>2, <1>6, <1>7
  <2> QED
    BY <1>17, <2>1, <2>3, <2>4
<1> QED
  <2>1. Advances(a, q, W)
    BY <1>1, <1>9, <1>13, <1>16, <1>17, <1>19, <1>20 DEF Advances
  <2> QED
    BY <1>1, <1>3, <1>4, <1>5, <1>12, <1>19, <2>1, GoesOn

LEMMA HeaderKeeps ==
  ASSUME LogInv, NEW a \in Adders, WriteHeader(a)
  PROVE  LogInv'
<1>1. PICK r, q : r = adder[a] /\ q = [r EXCEPT !.pc = "data"]
  OBVIOUS
<1>2. /\ r.pc = "head" /\ tail' = tail /\ file' = file \cup {HeaderOf(a, r)}
      /\ adder' = [adder EXCEPT ![a].pc = "data"]
  BY <1>1 DEF WriteHeader, HeaderOf
<1>3. Busy(a) /\ AdderOK(r)
  BY <1>1, <1>2 DEF LogInv, Busy
<1>4. r \in AdderStates /\ r.offset \in Nat /\ r.len \in Nat
  BY <1>3 DEF AdderOK, AdderStates
<1>5. adder' = [adder EXCEPT ![a] = q]
  BY <1>1, <1>2 DEF LogInv
<1>6. /\ q \in AdderStates /\ q.pc = "data" /\ q.start = r.start /\ q.size = r.size
      /\ q.offset = r.offset /\ q.left = r.left /\ q.len = r.len /\ q.part = r.part
      /\ q.type = r.type
  BY <1>1, <1>4 DEF AdderStates
<1>7. AdderOK(q)
  BY <1>2, <1>3, <1>6 DEF AdderOK, End
<1>8. Progress(r) = r.offset /\ Progress(q) = r.offset + HeaderSize
  BY <1>2, <1>6 DEF Progress
<1>9. HeaderOf(a, q) = HeaderOf(a, r)
  BY <1>6 DEF HeaderOf
<1>10. PICK w : w = HeaderOf(a, r)
  OBVIOUS
<1>11. w.at = r.offset /\ w.len = HeaderSize /\ w.kind = "head" /\ w.size = r.len
  BY <1>10 DEF HeaderOf
<1>12. HeaderSize + r.len <= Left(r.offset)
  BY <1>2, <1>3 DEF AdderOK
<1>13. Readable(w, file)
  BY <1>4, <1>11, <1>12, LogSizes DEF Readable
<1>14. Progress(r) <= Progress(q) /\ Progress(r) <= w.at /\ w.at + w.len <= Progress(q)
  BY <1>4, <1>8, <1>11, LogSizes
<1>15. PICK W : W = {w}
  OBVIOUS
<1>16. /\ file' = file \cup W /\ (\A x, y \in W : x = y) /\ HeaderOf(a, q) \in file'
       /\ \A x \in W : Readable(x, file) /\ Progress(r) <= x.at /\ x.at + x.len <= Progress(q)
  BY <1>2, <1>9, <1>10, <1>13, <1>14, <1>15
<1> QED
  <2>1. Advances(a, q, W)
    BY <1>1, <1>6, <1>7, <1>14, <1>16 DEF Advances
  <2> QED
    BY <1>2, <1>3, <1>5, <1>16, <2>1, GoesOn

LEMMA FailureKeeps ==
  ASSUME LogInv, NEW a \in Adders, WriteAtFails(a)
  PROVE  LogInv'
<1>1. PICK r, q, W : r = adder[a] /\ q = [r EXCEPT !.pc = "failed"] /\ W = {}
  OBVIOUS
<1>2. /\ r.pc \in {"head", "data"} /\ tail' = tail /\ file' = file \cup W
      /\ adder' = [adder EXCEPT ![a].pc = "failed"]
  BY <1>1 DEF WriteAtFails
<1>3. Busy(a) /\ AdderOK(r)
  BY <1>1, <1>2 DEF LogInv, Busy
<1>4. r \in AdderStates /\ r.offset \in Nat
  BY <1>3 DEF AdderOK, AdderStates
<1>5. adder' = [adder EXCEPT ![a] = q]
  BY <1>1, <1>2 DEF LogInv
<1>6. /\ q \in AdderStates /\ q.pc = "failed" /\ q.start = r.start /\ q.size = r.size
      /\ q.offset = r.offset /\ q.left = r.left /\ q.len = r.len
  BY <1>1, <1>4 DEF AdderStates
<1>7. AdderOK(q)
  BY <1>2, <1>3, <1>6 DEF AdderOK, End
<1>8. Progress(r) <= Progress(q)
  BY <1>4, <1>6, LogSizes DEF Progress
<1>9. /\ \A v, w \in W : v = w
      /\ \A w \in W : Readable(w, file) /\ Progress(r) <= w.at /\ w.at + w.len <= Progress(q)
  BY <1>1
<1> QED
  <2>1. Advances(a, q, W)
    BY <1>1, <1>6, <1>7, <1>8, <1>9 DEF Advances
  <2> QED
    BY <1>2, <1>3, <1>5, <2>1, GoesOn

\* What is left of a record after a fragment that filled its block ends within
\* what was reserved.
LEMMA RestEnds ==
  ASSUME NEW o \in Nat, NEW n \in Nat, NEW len \in Nat, len <= n, len # n,
         HeaderSize + len = Left(o)
  PROVE  /\ o + HeaderSize + len \in Nat /\ n - len \in Nat
         /\ RecordEnd(o + HeaderSize + len, n - len) <= RecordEnd(o, n)
<1>1. PICK s, m : s = o + Left(o) /\ m = n - len
  OBVIOUS
<1>2. /\ s \in Nat /\ s = o + HeaderSize + len /\ Left(s) = BlockSize
      /\ m \in Nat \ {0} /\ m = n + HeaderSize - Left(o)
  BY <1>1, LeftInBlock, LogSizes
<1>3. HeaderSize <= Left(o) /\ ~(HeaderSize + n <= Left(o))
  BY LogSizes
<1>4. RecordEnd(o, n) = ComputeRecordSize(s, m)
  BY <1>1, <1>2, <1>3, EndSpills
<1>5. RecordEnd(s, m) <= ComputeRecordSize(s, m)
  BY <1>2, BlockStartEnd
<1> QED
  BY <1>1, <1>2, <1>4, <1>5

LEMMA PayloadKeeps ==
  ASSUME LogInv, NEW a \in Adders, WritePayload(a)
  PROVE  LogInv'
<1>1. PICK r, o : r = adder[a] /\ o = r.offset + HeaderSize + r.len
  OBVIOUS
<1>2. PICK q : q = IF r.left = r.len THEN [r EXCEPT !.pc = "done", !.offset = o]
                   ELSE [r EXCEPT !.pc = "pad", !.offset = o,
                                  !.left = r.left - r.len, !.part = r.part + 1]
  OBVIOUS
<1>3. PICK w : w = [at |-> r.offset + HeaderSize, len |-> r.len, kind |-> "data",
                    data |-> <<a, r.part>>]
  OBVIOUS
<1>4. r.pc = "data" /\ tail' = tail /\ file' = file \cup {w}
  BY <1>1, <1>3 DEF WritePayload
<1>5. Busy(a) /\ AdderOK(r) /\ HeaderOf(a, r) \in file
  BY <1>1, <1>4 DEF LogInv, Busy
<1>6. /\ r \in AdderStates /\ r.offset \in Nat /\ r.len \in Nat /\ r.left \in Nat /\ r.part \in Nat
      /\ r.start \in Nat /\ r.size \in Nat /\ r.start <= r.offset
  BY <1>5 DEF AdderOK, AdderStates
<1>7. adder' = [adder EXCEPT ![a] = q]
  BY <1>1, <1>2, <1>4, <1>6 DEF WritePayload, AdderStates
<1>8. o \in Nat /\ r.start <= o
  BY <1>1, <1>6, LogSizes
<1>9. /\ HeaderSize + r.len <= Left(r.offset) /\ r.len <= r.left
      /\ r.len = r.left \/ HeaderSize + r.len = Left(r.offset)
      /\ RecordEnd(r.offset, r.left) <= End(r)
  BY <1>4, <1>5 DEF AdderOK
<1>10. AdderOK(q) /\ q.pc \in {"done", "pad"} /\ q.start = r.start /\ q.size = r.size /\ q.offset = o
  <2>1. CASE r.left = r.len
    <3>1. /\ q \in AdderStates /\ q.pc = "done" /\ q.offset = o /\ q.start = r.start
          /\ q.size = r.size
      BY <1>2, <1>6, <1>8, <2>1 DEF AdderStates
    <3>2. o <= End(r)
      BY <1>1, <1>6, <1>9, <2>1, EndFits
    <3> QED
      BY <1>8, <3>1, <3>2 DEF AdderOK, End
  <2>2. CASE r.left # r.len
    <3>1. o \in Nat /\ r.left - r.len \in Nat
          /\ RecordEnd(o, r.left - r.len) <= RecordEnd(r.offset, r.left)
      BY <1>1, <1>6, <1>9, <2>2, RestEnds
    <3>2. /\ q \in AdderStates /\ q.pc = "pad" /\ q.offset = o /\ q.start = r.start
          /\ q.size = r.size /\ q.left = r.left - r.len
      <4>1. r.part + 1 \in Nat
        BY <1>6
      <4>2. q = [r EXCEPT !.pc = "pad", !.offset = o, !.left = r.left - r.len, !.part = r.part + 1]
        BY <1>2, <2>2
      <4>3. PICK m, p : m = r.left - r.len /\ p = r.part + 1
        OBVIOUS
      <4>4. q = [r EXCEPT !.pc = "pad", !.offset = o, !.left = m, !.part = p]
        BY <4>2, <4>3
      <4>5. m \in Nat /\ p \in Nat
        BY <3>1, <4>1, <4>3
      <4> QED
        BY <1>6, <1>8, <4>3, <4>4, <4>5 DEF AdderStates
    <3>3. PICK x, y, z : /\ x = RecordEnd(o, r.left - r.len) /\ y = RecordEnd(r.offset, r.left)
                         /\ z = End(r)
      OBVIOUS
    <3>4. x \in Nat /\ y \in Nat /\ z \in Nat /\ x <= y /\ y <= z
      BY <1>5, <1>6, <1>9, <3>1, <3>3, EndBeyond, ProgressWithin
    <3>5. x <= z
      BY <3>4
    <3> QED
      BY <1>8, <3>2, <3>3, <3>5 DEF AdderOK, End
  <2> QED
    BY <2>1, <2>2
<1>11. Progress(r) = r.offset + HeaderSize /\ Progress(q) = o
  BY <1>4, <1>10 DEF Progress
<1>12. w.at = r.offset + HeaderSize /\ w.len = r.len /\ w.kind = "data" /\ w.data = <<a, r.part>>
  BY <1>3
<1>13. Readable(w, file)
  <2>1. PICK h : h = HeaderOf(a, r)
    OBVIOUS
  <2>2. /\ h \in file /\ h.kind = "head" /\ h.data = w.data
        /\ h.at + HeaderSize = w.at /\ h.size = w.len
    BY <1>5, <1>12, <2>1 DEF HeaderOf
  <2>3. w.at \in Nat /\ w.len \in Nat
    BY <1>6, <1>12, LogSizes
  <2> QED
    BY <1>12, <2>2, <2>3 DEF Readable
<1>14. Progress(r) <= Progress(q) /\ Progress(r) <= w.at /\ w.at + w.len <= Progress(q)
  BY <1>1, <1>6, <1>8, <1>11, <1>12, LogSizes
<1>15. PICK W : W = {w}
  OBVIOUS
<1>16. /\ file' = file \cup W /\ \A x, y \in W : x = y
       /\ \A x \in W : Readable(x, file) /\ Progress(r) <= x.at /\ x.at + x.len <= Progress(q)
  BY <1>4, <1>13, <1>14, <1>15
<1> QED
  <2>1. Advances(a, q, W)
    BY <1>1, <1>10, <1>14, <1>16 DEF Advances
  <2> QED
    BY <1>4, <1>5, <1>7, <1>16, <2>1, GoesOn

-----------------------------------------------------------------------------
LEMMA LogStarts == LogInit => LogInv
<1> SUFFICES ASSUME LogInit PROVE LogInv
  OBVIOUS
<1>1. tail = 0 /\ adder = [a \in Adders |-> [pc |-> "idle"]] /\ file = {}
  BY DEF LogInit
<1>2. \A a \in Adders : ~Busy(a) /\ adder[a].pc # "data"
  BY <1>1 DEF Busy
<1> QED
  BY <1>1, <1>2 DEF LogInv

LEMMA LogRests ==
  ASSUME LogInv, UNCHANGED logVars
  PROVE  LogInv'
<1>1. tail' = tail /\ adder' = adder /\ file' = file
  BY DEF logVars
<1> QED
  BY <1>1 DEF LogInv, Busy

(***************************************************************************)
(* Whatever the sizes of blocks, headers and records and however many        *)
(* threads add records at the same time, each thread stays within the bytes   *)
(* it reserved with the compare-and-swap of offset_.                         *)
(***************************************************************************)
THEOREM LogInvariant == LogSpec => []LogInv
<1>1. LogInit => LogInv
  BY LogStarts
<1>2. LogInv /\ [LogNext]_logVars => LogInv'
  <2> SUFFICES ASSUME LogInv, [LogNext]_logVars PROVE LogInv'
    OBVIOUS
  <2>1. CASE LogNext
    <3>1. PICK a \in Adders :
            Reserve(a) \/ Fragment(a) \/ WriteHeader(a) \/ WritePayload(a) \/ WriteAtFails(a)
      BY <2>1 DEF LogNext
    <3> QED
      BY <3>1, ReserveKeeps, FragmentKeeps, HeaderKeeps, PayloadKeeps, FailureKeeps
  <2>2. CASE UNCHANGED logVars
    BY <2>2, LogRests
  <2> QED
    BY <2>1, <2>2
<1> QED
  BY <1>1, <1>2, PTL DEF LogSpec

(***************************************************************************)
(* No two WriteAt calls of AddRecord, of the same thread or of several, ever  *)
(* touch the same byte of the log, and none goes beyond offset_.             *)
(***************************************************************************)
THEOREM WritesAlwaysDisjoint == LogSpec => []WritesDisjoint
<1>1. LogInv => WritesDisjoint
  <2> SUFFICES ASSUME LogInv PROVE WritesDisjoint
    OBVIOUS
  <2>1. \A v, w \in file : v = w \/ v.at + v.len <= w.at \/ w.at + w.len <= v.at
    BY DEF LogInv, Disjoint
  <2>2. ASSUME NEW w \in file PROVE w.at + w.len <= tail
    <3>1. PICK a \in Adders : Busy(a) /\ Owns(adder[a], w)
      BY DEF LogInv
    <3>2. AdderOK(adder[a]) /\ End(adder[a]) <= tail /\ tail \in Nat
      BY <3>1 DEF LogInv
    <3>3. PICK x, y, z : x = w.at + w.len /\ y = Progress(adder[a]) /\ z = End(adder[a])
      OBVIOUS
    <3>4. x \in Nat /\ y \in Nat /\ z \in Nat /\ x <= y /\ y <= z /\ z <= tail
      BY <3>1, <3>2, <3>3, ProgressWithin DEF Owns, LogInv, Readable
    <3>5. x <= tail
      BY <3>2, <3>4
    <3> QED
      BY <3>3, <3>5
  <2> QED
    BY <2>1, <2>2 DEF WritesDisjoint
<1> QED
  BY <1>1, LogInvariant, PTL

(***************************************************************************)
(* Whatever a crash leaves of the log, every header in it is where            *)
(* ReadPhysicalRecord looks for one and fits its block, and every payload     *)
(* has its header before it.                                                 *)
(***************************************************************************)
THEOREM FragmentsAlwaysReadable == LogSpec => []FragmentsReadable
<1>1. LogInv => FragmentsReadable
  BY DEF LogInv, Readable, FragmentsReadable
<1> QED
  BY <1>1, LogInvariant, PTL
=============================================================================
