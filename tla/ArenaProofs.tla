----------------------------- MODULE ArenaProofs -----------------------------
(***************************************************************************)
(* Proofs about the arena, for all sizes of blocks, pages and requests and    *)
(* any threads.                                                              *)
(***************************************************************************)
EXTENDS Arena, FiniteSetTheorems, SequenceTheorems, TLAPS

-----------------------------------------------------------------------------
(* Rounding up. *)

LEMMA RoundsUp ==
  ASSUME NEW n \in Nat, NEW u \in Nat \ {0}
  PROVE  /\ AlignUp(n, u) \in Nat /\ n <= AlignUp(n, u)
         /\ \E k \in Nat : AlignUp(n, u) = u * k
<1>1. PICK m, q, r : m = n + u - 1 /\ q = m \div u /\ r = m % u
  OBVIOUS
<1>2. m \in Nat
  BY <1>1
<1>3. q \in Nat /\ r \in 0 .. (u - 1) /\ m = u * q + r
  BY <1>1, <1>2
<1>4. AlignUp(n, u) = q * u
  BY <1>1 DEF AlignUp
<1>5. q * u = u * q /\ u * q \in Nat
  BY <1>3
<1>6. n <= u * q
  <2>1. PICK x : x = u * q
    OBVIOUS
  <2> QED
    BY <1>1, <1>3, <1>5, <2>1
<1> QED
  BY <1>3, <1>4, <1>5, <1>6

LEMMA MultipleOf ==
  ASSUME NEW u \in Nat \ {0}, NEW k \in Nat
  PROVE  (u * k) % u = 0
OBVIOUS

LEMMA DivMod ==
  ASSUME NEW u \in Nat \ {0}, NEW n \in Nat
  PROVE  n \div u \in Nat /\ n % u \in 0 .. (u - 1) /\ n = u * (n \div u) + (n % u)
OBVIOUS

\* A size is a multiple of align_ if and only if rounding up leaves it alone.
LEMMA UpperSizes ==
  ASSUME NEW n \in Nat
  PROVE  FromUpper(n) <=> n % ArAlign = 0
<1>0. ArAlign \in Nat \ {0}
  BY ArAssumption
<1>1. ASSUME FromUpper(n) PROVE n % ArAlign = 0
  <2>1. PICK k \in Nat : n = ArAlign * k
    BY <1>0, <1>1, RoundsUp DEF FromUpper
  <2> QED
    BY <1>0, <2>1, MultipleOf
<1>2. ASSUME n % ArAlign = 0 PROVE FromUpper(n)
  <2>1. PICK u, q : u = ArAlign /\ q = n \div ArAlign
    OBVIOUS
  <2>2. u \in Nat \ {0} /\ q \in Nat /\ n = u * q
    BY <1>0, <1>2, <2>1, DivMod
  <2>3. (u * q + (u - 1)) \div u = q
    BY <2>2
  <2>4. n + u - 1 = u * q + (u - 1)
    BY <2>2
  <2>5. (n + u - 1) \div u = q
    BY <2>3, <2>4
  <2>6. AlignUp(n, u) = q * u
    BY <2>5 DEF AlignUp
  <2> QED
    BY <2>1, <2>2, <2>6 DEF FromUpper
<1> QED
  BY <1>1, <1>2

LEMMA AlignedDifference ==
  ASSUME NEW u \in Nat \ {0}, NEW a \in Nat, NEW b \in Nat, b <= a, a % u = 0, b % u = 0
  PROVE  (a - b) % u = 0
<1>1. PICK p, q : p = a \div u /\ q = b \div u
  OBVIOUS
<1>2. p \in Nat /\ q \in Nat /\ a = u * p /\ b = u * q
  BY <1>1, DivMod
<1>3. p - q \in Nat
  BY <1>2
<1>4. a - b = u * (p - q)
  BY <1>2
<1> QED
  BY <1>3, <1>4, MultipleOf

\* A block holds what was asked for and ends on a multiple of align_.
LEMMA BlockSizes ==
  ASSUME NEW n \in Nat
  PROVE  /\ AlignUp(n, ArPage) \in Nat /\ n <= AlignUp(n, ArPage)
         /\ AlignUp(n, ArPage) % ArAlign = 0
<1>1. ArPage \in Nat \ {0} /\ ArAlign \in Nat \ {0} /\ ArPage % ArAlign = 0
  BY ArAssumption
<1>2. PICK k \in Nat : AlignUp(n, ArPage) = ArPage * k
  BY <1>1, RoundsUp
<1>3. PICK u, j : u = ArAlign /\ j = ArPage \div ArAlign
  OBVIOUS
<1>4. u \in Nat \ {0} /\ j \in Nat /\ ArPage = u * j
  BY <1>1, <1>3, DivMod
<1>5. ArPage * k = u * (j * k) /\ j * k \in Nat
  BY <1>4
<1>6. (u * (j * k)) % u = 0
  BY <1>4, <1>5, MultipleOf
<1> QED
  BY <1>1, <1>2, <1>3, <1>5, <1>6, RoundsUp

-----------------------------------------------------------------------------
(* The invariant.  A thread that has taken its bytes off rem and has not yet *)
(* moved an end has a claim on so many bytes between the two ends of the     *)
(* block.  The claims on a block are a set with one element for each byte,   *)
(* so that Cardinality adds them up.                                         *)

BlockStates == [rem : Nat, lower : Nat, upper : Nat, size : Nat, next : Nat]
AllocStates == [pc : {"idle", "block", "rem", "take", "large", "push", "end", "move"},
                bytes : Nat, block : Nat, seen : Nat, todo : Seq(Nat \ {0})]

Claims(a, b) == a.pc \in {"end", "move"} /\ a.block = b
Claim(t, n) == {t} \X (1 .. n)
Claimed(al, b) == {u \in ArThreads \X Nat : Claims(al[u[1]], b) /\ u[2] \in 1 .. al[u[1]].bytes}

\* The claims fit between the two ends, and what rem still offers beside them.
Fits(b, C) == b.lower + Cardinality(C) <= b.upper /\ b.upper <= b.size /\ b.upper % ArAlign = 0
Roomy(b, C) == b.lower + b.rem + Cardinality(C) <= b.upper

ThreadOK(bs, al, t) ==
  /\ al[t].pc # "idle" => al[t].bytes # 0
  /\ al[t].pc \in {"rem", "take", "end", "move"} => al[t].block \in 1 .. Len(bs)
  /\ al[t].pc \in {"rem", "take"} => Roomy(bs[al[t].block], Claimed(al, al[t].block))

\* What was returned lies beyond one of the ends.
Beyond(b, g) ==
  /\ g.first + g.bytes <= b.size
  /\ g.first >= b.upper \/ g.first + g.bytes <= b.lower

GrantOK(bs, g) ==
  /\ g \in [block : 1 .. Len(bs), first : Nat, bytes : Nat]
  /\ Beyond(bs[g.block], g)
  /\ g.bytes % ArAlign = 0 => g.first % ArAlign = 0

Apart(g, h) == g.block = h.block => g.first + g.bytes <= h.first \/ h.first + h.bytes <= g.first

ClaimsOK(bs, hd, al) ==
  /\ \A b \in Nat : IsFiniteSet(Claimed(al, b))
  /\ \A b \in 1 .. Len(bs) : Fits(bs[b], Claimed(al, b))
  /\ Roomy(bs[hd], Claimed(al, hd))
  /\ \A t \in ArThreads : ThreadOK(bs, al, t)

GrantsOK(bs, gr) ==
  /\ \A g \in gr : GrantOK(bs, g)
  /\ \A g \in gr : \A h \in gr \ {g} : Apart(g, h)

Typed(bs, hd, al) ==
  /\ bs \in Seq(BlockStates) /\ hd \in 1 .. Len(bs) /\ al \in [ArThreads -> AllocStates]

ArTypes == arena \in [blocks : Seq(BlockStates), head : Nat, large : Nat, usage : Nat]

ArInv ==
  /\ ArTypes
  /\ Typed(arena.blocks, arena.head, alloc)
  /\ ClaimsOK(arena.blocks, arena.head, alloc)
  /\ GrantsOK(arena.blocks, granted)

-----------------------------------------------------------------------------
(* Claims. *)

LEMMA ClaimSize ==
  ASSUME NEW t, NEW n \in Nat
  PROVE  IsFiniteSet(Claim(t, n)) /\ Cardinality(Claim(t, n)) = n
<1>1. IsFiniteSet({t}) /\ Cardinality({t}) = 1
  BY FS_Singleton
<1>2. IsFiniteSet(1 .. n) /\ Cardinality(1 .. n) = n
  BY FS_Interval
<1>3. PICK S, T : S = {t} /\ T = 1 .. n
  OBVIOUS
<1>4. IsFiniteSet(S \X T) /\ Cardinality(S \X T) = Cardinality(S) * Cardinality(T)
  BY <1>1, <1>2, <1>3, FS_Product
<1>5. Cardinality(S) * Cardinality(T) = n
  BY <1>1, <1>2, <1>3
<1>6. Claim(t, n) = S \X T
  BY <1>3 DEF Claim
<1> QED
  BY <1>4, <1>5, <1>6

\* All but t do as before.
Others(al, al2, t) ==
  /\ al \in [ArThreads -> AllocStates] /\ al2 \in [ArThreads -> AllocStates]
  /\ \A u \in ArThreads \ {t} : al2[u] = al[u]

\* A step of t that is no claim and gives up none.
LEMMA ClaimsKept ==
  ASSUME NEW al, NEW al2, NEW t \in ArThreads, NEW b \in Nat, Others(al, al2, t),
         Claims(al2[t], b) <=> Claims(al[t], b),
         Claims(al[t], b) => al2[t].bytes = al[t].bytes
  PROVE  Claimed(al2, b) = Claimed(al, b)
<1>1. \A u \in ArThreads \X Nat :
         (Claims(al2[u[1]], b) /\ u[2] \in 1 .. al2[u[1]].bytes)
         <=> (Claims(al[u[1]], b) /\ u[2] \in 1 .. al[u[1]].bytes)
  <2> TAKE u \in ArThreads \X Nat
  <2>1. u[1] \in ArThreads
    OBVIOUS
  <2> QED
    BY <2>1 DEF Others
<1> QED
  BY <1>1 DEF Claimed

LEMMA ClaimMade ==
  ASSUME NEW al, NEW al2, NEW t \in ArThreads, NEW b \in Nat, Others(al, al2, t),
         Claims(al2[t], b), ~ Claims(al[t], b), IsFiniteSet(Claimed(al, b))
  PROVE  /\ IsFiniteSet(Claimed(al2, b))
         /\ Cardinality(Claimed(al2, b)) = Cardinality(Claimed(al, b)) + al2[t].bytes
<1>0. PICK n : n = al2[t].bytes
  OBVIOUS
<1>1. n \in Nat
  BY <1>0 DEF Others, AllocStates
<1>2. Claimed(al2, b) = Claimed(al, b) \cup Claim(t, n)
  <2>1. ASSUME NEW u \in Claimed(al2, b) PROVE u \in Claimed(al, b) \cup Claim(t, n)
    BY <1>0, <1>1 DEF Claimed, Claim, Others
  <2>2. ASSUME NEW u \in Claimed(al, b) PROVE u \in Claimed(al2, b)
    BY <1>0, <1>1 DEF Claimed, Claim, Others
  <2>3. ASSUME NEW u \in Claim(t, n) PROVE u \in Claimed(al2, b)
    <3>1. u \in ArThreads \X Nat /\ u[1] = t /\ u[2] \in 1 .. n
      BY <1>1 DEF Claim
    <3> QED
      BY <1>0, <3>1 DEF Claimed
  <2> QED
    BY <2>1, <2>2, <2>3
<1>3. Claimed(al, b) \cap Claim(t, n) = {}
  BY DEF Claimed, Claim
<1>4. Cardinality(Claimed(al, b)) \in Nat
  BY FS_CardinalityType
<1>5. PICK S, T : S = Claimed(al, b) /\ T = Claim(t, n)
  OBVIOUS
<1>6. IsFiniteSet(S) /\ IsFiniteSet(T) /\ Cardinality(T) = n
  BY <1>1, <1>5, ClaimSize
<1>7. /\ IsFiniteSet(S \cup T)
      /\ Cardinality(S \cup T) = Cardinality(S) + Cardinality(T) - Cardinality(S \cap T)
  BY <1>6, FS_Union
<1>8. Cardinality(S \cap T) = 0
  BY <1>3, <1>5, FS_EmptySet
<1>9. Cardinality(S \cup T) = Cardinality(S) + n
  BY <1>1, <1>4, <1>5, <1>6, <1>7, <1>8
<1> QED
  BY <1>0, <1>2, <1>5, <1>7, <1>9

LEMMA ClaimUsed ==
  ASSUME NEW al, NEW al2, NEW t \in ArThreads, NEW b \in Nat, Others(al, al2, t),
         Claims(al[t], b), ~ Claims(al2[t], b), IsFiniteSet(Claimed(al, b))
  PROVE  /\ IsFiniteSet(Claimed(al2, b))
         /\ Cardinality(Claimed(al2, b)) = Cardinality(Claimed(al, b)) - al[t].bytes
<1>1. Others(al2, al, t)
  BY DEF Others
<1>2. Claimed(al2, b) \subseteq Claimed(al, b)
  BY DEF Claimed, Others
<1>3. IsFiniteSet(Claimed(al2, b)) /\ Cardinality(Claimed(al2, b)) \in Nat
  BY <1>2, FS_Subset, FS_CardinalityType
<1>4. Cardinality(Claimed(al, b)) = Cardinality(Claimed(al2, b)) + al[t].bytes
  BY <1>1, <1>3, ClaimMade
<1>5. al[t].bytes \in Nat
  BY DEF Others, AllocStates
<1> QED
  BY <1>3, <1>4, <1>5

\* A block that is not linked has no claims.
LEMMA NoneClaimed ==
  ASSUME NEW bs, NEW hd, NEW al, Typed(bs, hd, al), ClaimsOK(bs, hd, al), NEW b, b \notin 1 .. Len(bs)
  PROVE  Claimed(al, b) = {} /\ IsFiniteSet(Claimed(al, b)) /\ Cardinality(Claimed(al, b)) = 0
<1>1. \A t \in ArThreads : ~ Claims(al[t], b)
  BY DEF ClaimsOK, ThreadOK, Claims
<1>2. Claimed(al, b) = {}
  BY <1>1 DEF Claimed
<1> QED
  BY <1>2, FS_EmptySet

-----------------------------------------------------------------------------
(* The steps, by what they do to the blocks and to the call of t. *)

\* Wherever there was room for what rem offers there still is.
Roomier(bs, al, bs2, al2) ==
  /\ Len(bs) \in Nat /\ Len(bs2) \in Nat /\ Len(bs) <= Len(bs2)
  /\ \A b \in 1 .. Len(bs) : Roomy(bs[b], Claimed(al, b)) => Roomy(bs2[b], Claimed(al2, b))

LEMMA OthersKeep ==
  ASSUME NEW bs, NEW al, NEW bs2, NEW al2, NEW t, Others(al, al2, t), Roomier(bs, al, bs2, al2),
         NEW u \in ArThreads \ {t}, ThreadOK(bs, al, u)
  PROVE  ThreadOK(bs2, al2, u)
<1>1. PICK b : b = al[u].block /\ b = al2[u].block
  BY DEF Others
<1>2. al2[u] = al[u]
  BY DEF Others
<1>3. al[u].pc \in {"rem", "take", "end", "move"} => b \in 1 .. Len(bs) /\ b \in 1 .. Len(bs2)
  BY <1>1 DEF ThreadOK, Roomier
<1>4. al[u].pc \in {"rem", "take"} => Roomy(bs2[b], Claimed(al2, b))
  BY <1>1, <1>3 DEF ThreadOK, Roomier
<1> QED
  BY <1>1, <1>2, <1>3, <1>4 DEF ThreadOK

\* Typed, from the record the thread is left with.
LEMMA CallTyped ==
  ASSUME NEW al \in [ArThreads -> AllocStates], NEW t \in ArThreads, NEW q \in AllocStates, NEW al2,
         al2 = [al EXCEPT ![t] = q]
  PROVE  Others(al, al2, t) /\ al2[t] = q
BY DEF Others

\* A step that reads: the blocks are left alone, no claim is made or used.
Reads(bs, al, t, q) ==
  /\ q \in AllocStates
  /\ \A b \in Nat : Claims(q, b) <=> Claims(al[t], b)
  /\ q.bytes = al[t].bytes \/ \A b \in Nat : ~ Claims(al[t], b)
  /\ q.pc # "idle" => q.bytes # 0
  /\ q.pc \in {"rem", "take", "end", "move"} => q.block \in 1 .. Len(bs)
  /\ q.pc \in {"rem", "take"} => Roomy(bs[q.block], Claimed(al, q.block))

LEMMA ReadKeeps ==
  ASSUME NEW bs, NEW hd, NEW al, NEW t \in ArThreads, NEW q, NEW al2,
         Typed(bs, hd, al), ClaimsOK(bs, hd, al), Reads(bs, al, t, q), al2 = [al EXCEPT ![t] = q]
  PROVE  Typed(bs, hd, al2) /\ ClaimsOK(bs, hd, al2)
<1>1. Others(al, al2, t) /\ al2[t] = q
  BY CallTyped DEF Typed, Reads
<1>2. ASSUME NEW b \in Nat PROVE Claimed(al2, b) = Claimed(al, b)
  <2>1. (Claims(al2[t], b) <=> Claims(al[t], b)) /\ (Claims(al[t], b) => al2[t].bytes = al[t].bytes)
    BY <1>1 DEF Reads
  <2> QED
    BY <1>1, <2>1, ClaimsKept
<1>3. Len(bs) \in Nat /\ 1 .. Len(bs) \subseteq Nat
  BY LenProperties DEF Typed
<1>4. Roomier(bs, al, bs, al2)
  <2>1. \A b \in 1 .. Len(bs) : Roomy(bs[b], Claimed(al, b)) => Roomy(bs[b], Claimed(al2, b))
    BY <1>2, <1>3
  <2>2. Len(bs) <= Len(bs)
    BY <1>3
  <2> QED
    BY <1>3, <2>1, <2>2 DEF Roomier
<1>5. \A u \in ArThreads \ {t} : ThreadOK(bs, al2, u)
  BY <1>1, <1>4, OthersKeep DEF ClaimsOK
<1>6. ThreadOK(bs, al2, t)
  <2>1. q.block \in Nat
    BY DEF Reads, AllocStates
  <2> QED
    BY <1>1, <1>2, <2>1 DEF ThreadOK, Reads
<1>7. Typed(bs, hd, al2)
  BY <1>1 DEF Typed, Others
<1>8. hd \in Nat
  BY <1>3 DEF Typed
<1> QED
  BY <1>2, <1>3, <1>5, <1>6, <1>7, <1>8 DEF ClaimsOK

\* A block changes, together with the claims on it.
Changes(bs, al, t, q, al2, b, x) ==
  /\ q \in AllocStates /\ x \in BlockStates /\ b \in 1 .. Len(bs) /\ al2 = [al EXCEPT ![t] = q]
  /\ \A c \in Nat \ {b} : ~ Claims(q, c) /\ ~ Claims(al[t], c)
  /\ IsFiniteSet(Claimed(al2, b)) /\ Fits(x, Claimed(al2, b))
  /\ Roomy(bs[b], Claimed(al, b)) => Roomy(x, Claimed(al2, b))
  /\ q.pc \in {"idle", "end"} /\ (q.pc = "end" => q.bytes # 0 /\ q.block = b)

LEMMA BlockKeeps ==
  ASSUME NEW bs, NEW hd, NEW al, NEW t \in ArThreads, NEW q, NEW al2, NEW b, NEW x, NEW bs2,
         Typed(bs, hd, al), ClaimsOK(bs, hd, al), Changes(bs, al, t, q, al2, b, x), bs2 = [bs EXCEPT ![b] = x]
  PROVE  Typed(bs2, hd, al2) /\ ClaimsOK(bs2, hd, al2)
<1> USE DEF Changes
<1>1. Others(al, al2, t) /\ al2[t] = q
  BY CallTyped DEF Typed
<1>2. Len(bs) \in Nat /\ 1 .. Len(bs) \subseteq Nat
  BY LenProperties DEF Typed
<1>3. /\ bs2 \in Seq(BlockStates) /\ Len(bs2) = Len(bs)
      /\ \A c \in 1 .. Len(bs) : bs2[c] = IF c = b THEN x ELSE bs[c]
  BY ExceptSeq DEF Typed
<1>4. ASSUME NEW c \in Nat \ {b} PROVE Claimed(al2, c) = Claimed(al, c)
  <2>1. ~ Claims(al2[t], c) /\ ~ Claims(al[t], c)
    BY <1>1
  <2> QED
    BY <1>1, <2>1, ClaimsKept
<1>5. \A c \in Nat : IsFiniteSet(Claimed(al2, c))
  BY <1>4 DEF ClaimsOK
<1>6. \A c \in 1 .. Len(bs) : Fits(bs2[c], Claimed(al2, c))
  <2> TAKE c \in 1 .. Len(bs)
  <2>1. CASE c = b
    BY <1>3, <2>1
  <2>2. CASE c # b
    BY <1>2, <1>3, <1>4, <2>2 DEF ClaimsOK
  <2> QED
    BY <2>1, <2>2
<1>7. Roomier(bs, al, bs2, al2)
  <2>1. ASSUME NEW c \in 1 .. Len(bs), Roomy(bs[c], Claimed(al, c)) PROVE Roomy(bs2[c], Claimed(al2, c))
    <3>1. CASE c = b
      BY <1>3, <2>1, <3>1
    <3>2. CASE c # b
      BY <1>2, <1>3, <1>4, <2>1, <3>2
    <3> QED
      BY <3>1, <3>2
  <2>2. Len(bs2) \in Nat /\ Len(bs) <= Len(bs2)
    BY <1>2, <1>3
  <2> QED
    BY <1>2, <2>1, <2>2 DEF Roomier
<1>8. \A u \in ArThreads \ {t} : ThreadOK(bs2, al2, u)
  BY <1>1, <1>7, OthersKeep DEF ClaimsOK
<1>9. ThreadOK(bs2, al2, t)
  BY <1>1, <1>3 DEF ThreadOK
<1>10. Roomy(bs2[hd], Claimed(al2, hd))
  BY <1>7 DEF Roomier, Typed, ClaimsOK
<1>11. Typed(bs2, hd, al2)
  BY <1>1, <1>3 DEF Typed, Others
<1> QED
  BY <1>3, <1>5, <1>6, <1>8, <1>9, <1>10, <1>11 DEF ClaimsOK

\* A block is linked, and t may have a claim on it.
Links(bs, al, t, q, al2, x) ==
  LET b == Len(bs) + 1
  IN  /\ q \in AllocStates /\ x \in BlockStates /\ al2 = [al EXCEPT ![t] = q]
      /\ \A c \in Nat \ {b} : ~ Claims(q, c) /\ ~ Claims(al[t], c)
      /\ IsFiniteSet(Claimed(al2, b)) /\ Fits(x, Claimed(al2, b))
      /\ q.pc \in {"block", "end"} /\ q.bytes # 0 /\ (q.pc = "end" => q.block = b)

LEMMA LinkKeeps ==
  ASSUME NEW bs, NEW hd, NEW al, NEW t \in ArThreads, NEW q, NEW al2, NEW x, NEW bs2, NEW hd2,
         Typed(bs, hd, al), ClaimsOK(bs, hd, al), Links(bs, al, t, q, al2, x), bs2 = Append(bs, x),
         NEW b, b = Len(bs) + 1, hd2 = hd \/ (hd2 = b /\ Roomy(x, Claimed(al2, b)))
  PROVE  Typed(bs2, hd2, al2) /\ ClaimsOK(bs2, hd2, al2)
<1> USE DEF Links
<1>1. Others(al, al2, t) /\ al2[t] = q
  BY CallTyped DEF Typed
<1>2. Len(bs) \in Nat /\ 1 .. Len(bs) \subseteq Nat /\ b \in Nat /\ b \notin 1 .. Len(bs)
  BY LenProperties DEF Typed
<1>3. /\ bs2 \in Seq(BlockStates) /\ Len(bs2) = b /\ bs2[b] = x
      /\ \A c \in 1 .. Len(bs) : bs2[c] = bs[c]
  BY AppendProperties DEF Typed
<1>4. ASSUME NEW c \in Nat \ {b} PROVE Claimed(al2, c) = Claimed(al, c)
  <2>1. ~ Claims(al2[t], c) /\ ~ Claims(al[t], c)
    BY <1>1
  <2> QED
    BY <1>1, <2>1, ClaimsKept
<1>5. \A c \in Nat : IsFiniteSet(Claimed(al2, c))
  BY <1>4 DEF ClaimsOK
<1>6. 1 .. b = (1 .. Len(bs)) \cup {b}
  BY <1>2
<1>7. \A c \in 1 .. b : Fits(bs2[c], Claimed(al2, c))
  <2> TAKE c \in 1 .. b
  <2>1. CASE c = b
    BY <1>3, <2>1
  <2>2. CASE c # b
    BY <1>2, <1>3, <1>4, <1>6, <2>2 DEF ClaimsOK
  <2> QED
    BY <2>1, <2>2
<1>8. Roomier(bs, al, bs2, al2)
  <2>1. ASSUME NEW c \in 1 .. Len(bs), Roomy(bs[c], Claimed(al, c)) PROVE Roomy(bs2[c], Claimed(al2, c))
    <3>1. c \in Nat \ {b}
      BY <1>2
    <3> QED
      BY <1>3, <1>4, <2>1, <3>1
  <2>2. Len(bs2) \in Nat /\ Len(bs) <= Len(bs2)
    BY <1>2, <1>3
  <2> QED
    BY <1>2, <2>1, <2>2 DEF Roomier
<1>9. \A u \in ArThreads \ {t} : ThreadOK(bs2, al2, u)
  BY <1>1, <1>8, OthersKeep DEF ClaimsOK
<1>10. ThreadOK(bs2, al2, t)
  BY <1>1, <1>3, <1>6 DEF ThreadOK
<1>11. hd2 \in 1 .. b /\ Roomy(bs2[hd2], Claimed(al2, hd2))
  BY <1>3, <1>6, <1>8 DEF Roomier, Typed, ClaimsOK
<1>12. Typed(bs2, hd2, al2)
  BY <1>1, <1>3, <1>11 DEF Typed, Others
<1> QED
  BY <1>3, <1>5, <1>7, <1>9, <1>10, <1>11, <1>12 DEF ClaimsOK

-----------------------------------------------------------------------------
(* Grants. *)

\* The ends of a block only come closer, and blocks stay.
Closer(bs, bs2) ==
  /\ bs \in Seq(BlockStates) /\ bs2 \in Seq(BlockStates) /\ Len(bs) <= Len(bs2)
  /\ \A b \in 1 .. Len(bs) :
       bs2[b].size = bs[b].size /\ bs2[b].upper <= bs[b].upper /\ bs[b].lower <= bs2[b].lower

LEMMA GrantsCarry ==
  ASSUME NEW bs, NEW bs2, NEW gr, GrantsOK(bs, gr), Closer(bs, bs2)
  PROVE  GrantsOK(bs2, gr)
<1>1. ASSUME NEW g \in gr PROVE GrantOK(bs2, g)
  <2>1. GrantOK(bs, g)
    BY DEF GrantsOK
  <2>2. Len(bs) \in Nat /\ Len(bs2) \in Nat /\ Len(bs) <= Len(bs2)
    BY LenProperties DEF Closer
  <2>3. PICK b, i, n : b = g.block /\ i = g.first /\ n = g.bytes
    OBVIOUS
  <2>4. b \in 1 .. Len(bs) /\ b \in 1 .. Len(bs2) /\ i \in Nat /\ n \in Nat
    BY <2>1, <2>2, <2>3 DEF GrantOK
  <2>5. PICK x, y : x = bs[b] /\ y = bs2[b]
    OBVIOUS
  <2>6. x \in BlockStates /\ y \in BlockStates
    BY <2>4, <2>5, ElementOfSeq DEF Closer
  <2>7. y.size = x.size /\ y.upper <= x.upper /\ x.lower <= y.lower
    BY <2>4, <2>5 DEF Closer
  <2>8. Beyond(x, g)
    BY <2>1, <2>3, <2>5 DEF GrantOK
  <2>9. Beyond(y, g)
    BY <2>3, <2>4, <2>6, <2>7, <2>8 DEF Beyond, BlockStates
  <2>10. g \in [block : 1 .. Len(bs2), first : Nat, bytes : Nat]
    BY <2>1, <2>3, <2>4 DEF GrantOK
  <2> QED
    BY <2>1, <2>3, <2>5, <2>9, <2>10 DEF GrantOK
<1> QED
  BY <1>1 DEF GrantsOK

LEMMA GrantAdded ==
  ASSUME NEW bs, NEW gr, NEW g, GrantsOK(bs, gr), GrantOK(bs, g), \A h \in gr : Apart(g, h)
  PROVE  GrantsOK(bs, gr \cup {g})
<1>1. \A h \in gr : Apart(h, g)
  BY DEF Apart
<1> QED
  BY <1>1 DEF GrantsOK

-----------------------------------------------------------------------------
(* The actions. *)

ArPCs == {"idle", "block", "rem", "take", "large", "push", "end", "move"}

LEMMA Went ==
  ASSUME alloc \in [ArThreads -> AllocStates], NEW t \in ArThreads,
         NEW pc \in ArPCs, NEW block \in Nat, NEW seen \in Nat, ArGoto(t, pc, block, seen)
  PROVE  \E q \in AllocStates :
           /\ alloc' = [alloc EXCEPT ![t] = q]
           /\ q.pc = pc /\ q.bytes = alloc[t].bytes /\ q.block = block /\ q.seen = seen
<1>1. PICK a \in AllocStates : a = alloc[t]
  OBVIOUS
<1>2. PICK q : q = [a EXCEPT !.pc = pc, !.block = block, !.seen = seen]
  OBVIOUS
<1>3. q \in AllocStates /\ q.pc = pc /\ q.bytes = a.bytes /\ q.block = block /\ q.seen = seen
  BY <1>1, <1>2 DEF AllocStates, ArPCs
<1>4. alloc' = [alloc EXCEPT ![t] = q]
  BY <1>1, <1>2 DEF ArGoto
<1> QED
  BY <1>1, <1>3, <1>4

LEMMA InvReads ==
  ASSUME ArInv, NEW t \in ArThreads, NEW q, Reads(arena.blocks, alloc, t, q),
         alloc' = [alloc EXCEPT ![t] = q], UNCHANGED <<arena, granted>>
  PROVE  ArInv'
<1>1. Typed(arena.blocks, arena.head, alloc') /\ ClaimsOK(arena.blocks, arena.head, alloc')
  BY ReadKeeps DEF ArInv
<1> QED
  BY <1>1 DEF ArInv, ArTypes

\* What the invariant says of a thread.
LEMMA ThreadFacts ==
  ASSUME ArInv, NEW t \in ArThreads
  PROVE  /\ alloc \in [ArThreads -> AllocStates] /\ alloc[t] \in AllocStates
         /\ ThreadOK(arena.blocks, alloc, t)
         /\ arena.blocks \in Seq(BlockStates) /\ Len(arena.blocks) \in Nat
         /\ \A b \in 1 .. Len(arena.blocks) : b \in Nat /\ arena.blocks[b] \in BlockStates
BY LenProperties, ElementOfSeq DEF ArInv, Typed, ClaimsOK

\* A step to a place of the code that has no claim, from one that has none.
LEMMA GoneOn ==
  ASSUME ArInv, NEW t \in ArThreads, alloc[t].pc \in ArPCs \ {"idle", "end", "move"},
         NEW pc \in ArPCs \ {"idle", "end", "move"}, NEW block \in Nat, NEW seen \in Nat, ArGoto(t, pc, block, seen),
         pc \in {"rem", "take"} => /\ block \in 1 .. Len(arena.blocks)
                                   /\ Roomy(arena.blocks[block], Claimed(alloc, block)),
         UNCHANGED <<arena, granted>>
  PROVE  ArInv'
<1>1. PICK q \in AllocStates :
         /\ alloc' = [alloc EXCEPT ![t] = q]
         /\ q.pc = pc /\ q.bytes = alloc[t].bytes /\ q.block = block /\ q.seen = seen
  BY Went, ThreadFacts
<1>2. alloc[t].bytes # 0
  BY ThreadFacts DEF ThreadOK
<1>3. \A b : ~ Claims(q, b) /\ ~ Claims(alloc[t], b)
  BY <1>1 DEF Claims
<1>4. Reads(arena.blocks, alloc, t, q)
  BY <1>1, <1>2, <1>3 DEF Reads
<1> QED
  BY <1>1, <1>4, InvReads

LEMMA AllocateCallKeeps ==
  ASSUME ArInv, NEW t \in ArThreads, AllocateCall(t)
  PROVE  ArInv'
<1>1. PICK a \in AllocStates : a = alloc[t]
  BY ThreadFacts
<1>2. a.pc = "idle" /\ a.todo \in Seq(Nat \ {0}) /\ a.todo # <<>>
  BY <1>1 DEF AllocateCall, AllocStates
<1>3. PICK n \in Nat \ {0} : n = Head(a.todo)
  BY <1>2, HeadTailProperties
<1>4. Tail(a.todo) \in Seq(Nat \ {0})
  BY <1>2, HeadTailProperties
<1>5. PICK pc \in {"large", "block"} : pc = IF n > ArBlock \div 4 THEN "large" ELSE "block"
  OBVIOUS
<1>6. PICK q : q = [pc |-> pc, bytes |-> n, block |-> 0, seen |-> 0, todo |-> Tail(a.todo)]
  OBVIOUS
<1>7. q \in AllocStates /\ q.pc = pc /\ q.bytes = n
  BY <1>4, <1>5, <1>6 DEF AllocStates
<1>8. alloc' = [alloc EXCEPT ![t] = q]
  BY <1>1, <1>3, <1>5, <1>6 DEF AllocateCall
<1>9. \A b : ~ Claims(q, b) /\ ~ Claims(alloc[t], b)
  BY <1>1, <1>2, <1>5, <1>7 DEF Claims
<1>10. Reads(arena.blocks, alloc, t, q)
  BY <1>5, <1>7, <1>9 DEF Reads
<1> QED
  BY <1>8, <1>10, InvReads DEF AllocateCall

LEMMA LoadBlockKeeps ==
  ASSUME ArInv, NEW t \in ArThreads, LoadBlock(t)
  PROVE  ArInv'
<1>1. alloc[t].pc = "block" /\ ArGoto(t, "rem", arena.head, 0) /\ UNCHANGED <<arena, granted>>
  BY DEF LoadBlock
<1>2. arena.head \in 1 .. Len(arena.blocks) /\ Roomy(arena.blocks[arena.head], Claimed(alloc, arena.head))
  BY DEF ArInv, Typed, ClaimsOK
<1>3. arena.head \in Nat
  BY <1>2, ThreadFacts
<1> QED
  BY <1>1, <1>2, <1>3, GoneOn DEF ArPCs

\* A thread at "rem" or "take" stays with its block and sees a number.
LEMMA SeesRem ==
  ASSUME ArInv, NEW t \in ArThreads, alloc[t].pc \in {"rem", "take"},
         ArGoto(t, "take", alloc[t].block, arena.blocks[alloc[t].block].rem), UNCHANGED <<arena, granted>>
  PROVE  ArInv'
<1>1. PICK b : b = alloc[t].block
  OBVIOUS
<1>2. b \in 1 .. Len(arena.blocks) /\ Roomy(arena.blocks[b], Claimed(alloc, b))
  BY <1>1, ThreadFacts DEF ThreadOK
<1>3. b \in Nat /\ arena.blocks[b].rem \in Nat
  BY <1>2, ThreadFacts DEF BlockStates
<1> QED
  BY <1>1, <1>2, <1>3, GoneOn DEF ArPCs

LEMMA LoadRemKeeps ==
  ASSUME ArInv, NEW t \in ArThreads, LoadRem(t)
  PROVE  ArInv'
BY SeesRem DEF LoadRem

\* A block is replaced by one with the same ends or closer ones.
LEMMA InvBlock ==
  ASSUME ArInv, NEW b \in 1 .. Len(arena.blocks), NEW x \in BlockStates,
         arena' \in [blocks : Seq(BlockStates), head : Nat, large : Nat, usage : Nat],
         arena'.blocks = [arena.blocks EXCEPT ![b] = x], arena'.head = arena.head,
         x.size = arena.blocks[b].size, x.upper <= arena.blocks[b].upper, arena.blocks[b].lower <= x.lower
  PROVE  Closer(arena.blocks, arena'.blocks) /\ GrantsOK(arena'.blocks, granted)
<1>1. PICK bs, bs2 : bs = arena.blocks /\ bs2 = arena'.blocks
  OBVIOUS
<1>2. bs \in Seq(BlockStates) /\ Len(bs) \in Nat
  BY <1>1, LenProperties DEF ArInv, Typed
<1>3. /\ bs2 \in Seq(BlockStates) /\ Len(bs2) = Len(bs)
      /\ \A c \in 1 .. Len(bs) : bs2[c] = IF c = b THEN x ELSE bs[c]
  BY <1>1, <1>2, ExceptSeq
<1>4. ASSUME NEW c \in 1 .. Len(bs)
      PROVE  bs2[c].size = bs[c].size /\ bs2[c].upper <= bs[c].upper /\ bs[c].lower <= bs2[c].lower
  <2>1. CASE c = b
    BY <1>1, <1>3, <2>1
  <2>2. CASE c # b
    <3>1. bs[c] \in BlockStates
      BY <1>2, ElementOfSeq
    <3>2. bs[c].upper \in Nat /\ bs[c].lower \in Nat /\ bs2[c] = bs[c]
      BY <1>3, <2>2, <3>1 DEF BlockStates
    <3> QED
      BY <3>2
  <2> QED
    BY <2>1, <2>2
<1>5. Closer(bs, bs2)
  <2>1. Len(bs) <= Len(bs2)
    BY <1>2, <1>3
  <2> QED
    BY <1>2, <1>3, <1>4, <2>1 DEF Closer
<1> QED
  BY <1>1, <1>5, GrantsCarry DEF ArInv

\* Taking n bytes off rem, with a claim on n bytes.
LEMMA TakenOff ==
  ASSUME NEW b \in BlockStates, NEW n \in Nat, NEW C, NEW D, Cardinality(C) \in Nat,
         Cardinality(D) = Cardinality(C) + n, Roomy(b, C), Fits(b, C), n <= b.rem,
         NEW x, x = [b EXCEPT !.rem = b.rem - n]
  PROVE  /\ x \in BlockStates /\ Fits(x, D) /\ Roomy(x, D)
         /\ x.size = b.size /\ x.upper = b.upper /\ x.lower = b.lower
<1>1. /\ b.rem \in Nat /\ b.lower \in Nat /\ b.upper \in Nat /\ b.rem - n \in Nat
  BY DEF BlockStates
<1>2. x \in BlockStates /\ x.rem = b.rem - n /\ x.lower = b.lower /\ x.upper = b.upper /\ x.size = b.size
  BY <1>1 DEF BlockStates
<1>3. PICK c : c = Cardinality(C)
  OBVIOUS
<1>4. x.lower + (c + n) <= x.upper /\ x.lower + x.rem + (c + n) <= x.upper
  BY <1>1, <1>2, <1>3 DEF Roomy
<1> QED
  BY <1>2, <1>3, <1>4 DEF Fits, Roomy

LEMMA TakeRemKeeps ==
  ASSUME ArInv, NEW t \in ArThreads, TakeRem(t)
  PROVE  ArInv'
<1>1. alloc[t].pc = "take" /\ alloc[t].seen >= alloc[t].bytes /\ CasRem(t) /\ UNCHANGED granted
  BY DEF TakeRem
<1>2. PICK b, n, bs : b = alloc[t].block /\ n = alloc[t].bytes /\ bs = arena.blocks
  OBVIOUS
<1>3. n \in Nat \ {0} /\ b \in 1 .. Len(bs) /\ Roomy(bs[b], Claimed(alloc, b))
  BY <1>1, <1>2, ThreadFacts DEF ThreadOK, AllocStates
<1>4. b \in Nat /\ bs[b] \in BlockStates
  BY <1>2, <1>3, ThreadFacts
<1>5. CASE bs[b].rem # alloc[t].seen
  BY <1>1, <1>2, <1>5, SeesRem DEF CasRem
<1>6. CASE bs[b].rem = alloc[t].seen
  <2>1. PICK x : x = [bs[b] EXCEPT !.rem = bs[b].rem - n]
    OBVIOUS
  <2>2. arena' = [arena EXCEPT !.blocks = [bs EXCEPT ![b] = x]] /\ ArGoto(t, "end", b, 0)
    BY <1>1, <1>2, <1>6, <2>1 DEF CasRem
  <2>3. PICK q \in AllocStates :
          alloc' = [alloc EXCEPT ![t] = q] /\ q.pc = "end" /\ q.bytes = n /\ q.block = b
    BY <1>2, <1>4, <2>2, Went, ThreadFacts DEF ArPCs
  <2>4. Others(alloc, alloc', t) /\ alloc'[t] = q
    BY <2>3, CallTyped, ThreadFacts
  <2>5. Claims(q, b) /\ (\A c : ~ Claims(alloc[t], c)) /\ \A c \in Nat \ {b} : ~ Claims(q, c)
    BY <1>1, <2>3 DEF Claims
  <2>6. IsFiniteSet(Claimed(alloc, b)) /\ Cardinality(Claimed(alloc, b)) \in Nat
    BY <1>4, FS_CardinalityType DEF ArInv, ClaimsOK
  <2>7. IsFiniteSet(Claimed(alloc', b)) /\ Cardinality(Claimed(alloc', b)) = Cardinality(Claimed(alloc, b)) + n
    <3>1. PICK al, al2 : al = alloc /\ al2 = alloc'
      OBVIOUS
    <3>2. Others(al, al2, t) /\ Claims(al2[t], b) /\ ~ Claims(al[t], b) /\ IsFiniteSet(Claimed(al, b))
      BY <2>4, <2>5, <2>6, <3>1
    <3>3. /\ IsFiniteSet(Claimed(al2, b))
          /\ Cardinality(Claimed(al2, b)) = Cardinality(Claimed(al, b)) + al2[t].bytes
      BY <1>4, <3>2, ClaimMade
    <3> QED
      BY <2>3, <2>4, <3>1, <3>3
  <2>8. n <= bs[b].rem
    <3>1. bs[b].rem \in Nat
      BY <1>4 DEF BlockStates
    <3> QED
      BY <1>1, <1>2, <1>3, <1>6, <3>1
  <2>9. Fits(bs[b], Claimed(alloc, b))
    BY <1>2, <1>3 DEF ArInv, ClaimsOK
  <2>10. /\ x \in BlockStates /\ Fits(x, Claimed(alloc', b)) /\ Roomy(x, Claimed(alloc', b))
         /\ x.size = bs[b].size /\ x.upper = bs[b].upper /\ x.lower = bs[b].lower
    BY <1>3, <1>4, <2>1, <2>6, <2>7, <2>8, <2>9, TakenOff
  <2>11. /\ arena' \in [blocks : Seq(BlockStates), head : Nat, large : Nat, usage : Nat]
         /\ arena'.blocks = [bs EXCEPT ![b] = x] /\ arena'.head = arena.head
    <3>1. [bs EXCEPT ![b] = x] \in Seq(BlockStates)
      BY <1>2, <1>3, <2>10, ExceptSeq, ThreadFacts
    <3> QED
      BY <2>2, <3>1 DEF ArInv, ArTypes
  <2>12. Typed(arena'.blocks, arena'.head, alloc') /\ ClaimsOK(arena'.blocks, arena'.head, alloc')
    <3>1. PICK hd, al, al2, bs2 :
            hd = arena.head /\ al = alloc /\ al2 = alloc' /\ bs2 = arena'.blocks
      OBVIOUS
    <3>2. Typed(bs, hd, al) /\ ClaimsOK(bs, hd, al)
      BY <1>2, <3>1 DEF ArInv
    <3>3. al2 = [al EXCEPT ![t] = q] /\ bs2 = [bs EXCEPT ![b] = x]
      BY <2>3, <2>11, <3>1
    <3>4. \A c \in Nat \ {b} : ~ Claims(q, c) /\ ~ Claims(al[t], c)
      BY <2>5, <3>1
    <3>5. IsFiniteSet(Claimed(al2, b)) /\ Fits(x, Claimed(al2, b)) /\ Roomy(x, Claimed(al2, b))
      BY <2>7, <2>10, <3>1
    <3>6. q.pc \in {"idle", "end"} /\ q.bytes # 0 /\ q.block = b
      BY <1>3, <2>3
    <3>7. Typed(bs2, hd, al2) /\ ClaimsOK(bs2, hd, al2)
      <4>1. Changes(bs, al, t, q, al2, b, x)
        BY <1>3, <2>10, <3>3, <3>4, <3>5, <3>6 DEF Changes
      <4> QED
        BY <3>2, <3>3, <4>1, BlockKeeps
    <3> QED
      BY <2>11, <3>1, <3>7
  <2>13. x.upper <= bs[b].upper /\ bs[b].lower <= x.lower
    BY <1>4, <2>10 DEF BlockStates
  <2>14. GrantsOK(arena'.blocks, granted)
    BY <1>2, <1>3, <2>10, <2>11, <2>13, InvBlock
  <2> QED
    BY <1>1, <2>11, <2>12, <2>14 DEF ArInv, ArTypes
<1> QED
  BY <1>5, <1>6

\* A block is linked.
LEMMA InvLink ==
  ASSUME ArInv, NEW x \in BlockStates, arena'.blocks = Append(arena.blocks, x)
  PROVE  arena'.blocks \in Seq(BlockStates) /\ GrantsOK(arena'.blocks, granted)
<1>1. PICK bs, bs2 : bs = arena.blocks /\ bs2 = arena'.blocks
  OBVIOUS
<1>2. bs \in Seq(BlockStates) /\ Len(bs) \in Nat
  BY <1>1, LenProperties DEF ArInv, Typed
<1>3. bs2 \in Seq(BlockStates) /\ Len(bs2) = Len(bs) + 1 /\ \A c \in 1 .. Len(bs) : bs2[c] = bs[c]
  BY <1>1, <1>2, AppendProperties
<1>4. ASSUME NEW c \in 1 .. Len(bs)
      PROVE  bs2[c].size = bs[c].size /\ bs2[c].upper <= bs[c].upper /\ bs[c].lower <= bs2[c].lower
  <2>1. bs[c] \in BlockStates
    BY <1>2, ElementOfSeq
  <2>2. bs[c].upper \in Nat /\ bs[c].lower \in Nat /\ bs2[c] = bs[c]
    BY <1>3, <2>1 DEF BlockStates
  <2> QED
    BY <2>2
<1>5. Closer(bs, bs2)
  <2>1. Len(bs) <= Len(bs2)
    BY <1>2, <1>3
  <2> QED
    BY <1>2, <1>3, <1>4, <2>1 DEF Closer
<1> QED
  BY <1>1, <1>3, <1>5, GrantsCarry DEF ArInv

\* A block that is linked is empty: it fits a claim on what it was made for.
LEMMA NewBlockFits ==
  ASSUME NEW n \in Nat, NEW next \in Nat, NEW C, Cardinality(C) \in Nat, Cardinality(C) <= n,
         NEW x, x = NewBlock(n, next)
  PROVE  x \in BlockStates /\ Fits(x, C) /\ (Cardinality(C) = 0 => Roomy(x, C))
<1>1. PICK sz : sz = AlignUp(n, ArPage)
  OBVIOUS
<1>2. sz \in Nat /\ n <= sz /\ sz % ArAlign = 0
  BY <1>1, BlockSizes
<1>3. x = [rem |-> sz, lower |-> 0, upper |-> sz, size |-> sz, next |-> next]
  BY <1>1 DEF NewBlock
<1>4. x \in BlockStates /\ x.rem = sz /\ x.lower = 0 /\ x.upper = sz /\ x.size = sz
  BY <1>2, <1>3 DEF BlockStates
<1> QED
  BY <1>2, <1>4 DEF Fits, Roomy

LEMMA PushBlockKeeps ==
  ASSUME ArInv, NEW t \in ArThreads, PushBlock(t)
  PROVE  ArInv'
<1>1. alloc[t].pc = "take" /\ ArGoto(t, "block", 0, 0) /\ UNCHANGED granted
  BY DEF PushBlock
<1>2. CASE arena.head # alloc[t].block
  <2>1. arena' = arena
    BY <1>2 DEF PushBlock
  <2> QED
    BY <1>1, <2>1, GoneOn DEF ArPCs
<1>3. CASE arena.head = alloc[t].block
  <2>1. PICK bs, hd, al, al2, b : bs = arena.blocks /\ hd = arena.head /\ al = alloc /\ al2 = alloc' /\ b = Len(bs) + 1
    OBVIOUS
  <2>2. Typed(bs, hd, al) /\ ClaimsOK(bs, hd, al)
    BY <2>1 DEF ArInv
  <2>3. Len(bs) \in Nat /\ b \in Nat /\ b \notin 1 .. Len(bs) /\ hd \in Nat
    <3>1. Len(bs) \in Nat
      BY <2>1, ThreadFacts
    <3> QED
      BY <2>1, <2>2, <3>1 DEF Typed
  <2>4. PICK x : x = NewBlock(ArBlock, hd)
    OBVIOUS
  <2>5. arena' = [arena EXCEPT !.blocks = Append(bs, x), !.usage = arena.usage + ArHeader, !.head = b]
    BY <1>3, <2>1, <2>4 DEF PushBlock, Pushed, LastBlock
  <2>6. PICK q \in AllocStates : al2 = [al EXCEPT ![t] = q] /\ q.pc = "block" /\ q.bytes = al[t].bytes
    BY <1>1, <2>1, Went, ThreadFacts DEF ArPCs
  <2>7. Others(al, al2, t) /\ al2[t] = q
    BY <2>2, <2>6, CallTyped DEF Typed
  <2>8. \A c : ~ Claims(q, c) /\ ~ Claims(al[t], c)
    BY <1>1, <2>1, <2>6 DEF Claims
  <2>9. Claimed(al2, b) = Claimed(al, b)
    BY <2>3, <2>7, <2>8, ClaimsKept
  <2>10. IsFiniteSet(Claimed(al2, b)) /\ Cardinality(Claimed(al2, b)) = 0
    BY <2>2, <2>3, <2>9, NoneClaimed
  <2>11. x \in BlockStates /\ Fits(x, Claimed(al2, b)) /\ Roomy(x, Claimed(al2, b))
    <3>1. ArBlock \in Nat /\ 0 <= ArBlock
      BY ArAssumption
    <3> QED
      BY <2>3, <2>4, <2>10, <3>1, NewBlockFits
  <2>12. q.bytes # 0
    BY <1>1, <2>1, <2>6, ThreadFacts DEF ThreadOK
  <2>13. Links(bs, al, t, q, al2, x)
    BY <2>1, <2>6, <2>8, <2>10, <2>11, <2>12 DEF Links
  <2>14. /\ arena'.blocks = Append(bs, x) /\ arena'.head = b
         /\ arena'.large = arena.large /\ arena'.usage = arena.usage + ArHeader
    BY <2>5 DEF ArInv, ArTypes
  <2>15. Typed(arena'.blocks, b, al2) /\ ClaimsOK(arena'.blocks, b, al2)
    <3>1. PICK bs2 : bs2 = arena'.blocks
      OBVIOUS
    <3>2. Typed(bs2, b, al2) /\ ClaimsOK(bs2, b, al2)
      BY <2>1, <2>2, <2>11, <2>13, <2>14, <3>1, LinkKeeps
    <3> QED
      BY <3>1, <3>2
  <2>16. arena'.blocks \in Seq(BlockStates) /\ GrantsOK(arena'.blocks, granted)
    BY <2>1, <2>11, <2>14, InvLink
  <2>17. arena' \in [blocks : Seq(BlockStates), head : Nat, large : Nat, usage : Nat]
    <3>1. arena.usage + ArHeader \in Nat
      BY ArAssumption DEF ArInv, ArTypes
    <3> QED
      BY <2>3, <2>5, <2>14, <2>16, <3>1 DEF ArInv, ArTypes
  <2> QED
    BY <1>1, <2>1, <2>14, <2>15, <2>16, <2>17 DEF ArInv, ArTypes
<1> QED
  BY <1>2, <1>3

LEMMA LoadLargeKeeps ==
  ASSUME ArInv, NEW t \in ArThreads, LoadLarge(t)
  PROVE  ArInv'
<1>1. arena.large \in Nat
  BY DEF ArInv, ArTypes
<1> QED
  BY <1>1, GoneOn DEF LoadLarge, ArPCs

LEMMA PushLargeKeeps ==
  ASSUME ArInv, NEW t \in ArThreads, PushLarge(t)
  PROVE  ArInv'
<1>0. arena.large \in Nat
  BY DEF ArInv, ArTypes
<1>1. alloc[t].pc = "push" /\ UNCHANGED granted
  BY DEF PushLarge
<1>2. CASE arena.large # alloc[t].seen
  <2>1. ArGoto(t, "push", 0, arena.large) /\ arena' = arena
    BY <1>2 DEF PushLarge
  <2> QED
    BY <1>0, <1>1, <2>1, GoneOn DEF ArPCs
<1>3. CASE arena.large = alloc[t].seen
  <2>1. PICK bs, hd, al, al2, b, n :
          /\ bs = arena.blocks /\ hd = arena.head /\ al = alloc /\ al2 = alloc' /\ b = Len(bs) + 1
          /\ n = alloc[t].bytes
    OBVIOUS
  <2>2. Typed(bs, hd, al) /\ ClaimsOK(bs, hd, al)
    BY <2>1 DEF ArInv
  <2>3. Len(bs) \in Nat /\ b \in Nat /\ b \notin 1 .. Len(bs)
    <3>1. Len(bs) \in Nat
      BY <2>1, ThreadFacts
    <3> QED
      BY <2>1, <3>1
  <2>4. PICK x : x = NewBlock(n, arena.large)
    OBVIOUS
  <2>5. /\ arena' = [arena EXCEPT !.blocks = Append(bs, x), !.usage = arena.usage + ArHeader, !.large = b]
        /\ ArGoto(t, "end", b, 0)
    BY <1>3, <2>1, <2>4 DEF PushLarge, Pushed, LastBlock, LinkSeen
  <2>6. PICK q \in AllocStates : al2 = [al EXCEPT ![t] = q] /\ q.pc = "end" /\ q.bytes = n /\ q.block = b
    BY <2>1, <2>3, <2>5, Went, ThreadFacts DEF ArPCs
  <2>7. Others(al, al2, t) /\ al2[t] = q
    BY <2>2, <2>6, CallTyped DEF Typed
  <2>8. Claims(q, b) /\ (\A c : ~ Claims(al[t], c)) /\ \A c \in Nat \ {b} : ~ Claims(q, c)
    BY <1>1, <2>1, <2>6 DEF Claims
  <2>9. IsFiniteSet(Claimed(al, b)) /\ Cardinality(Claimed(al, b)) = 0
    BY <2>2, <2>3, NoneClaimed
  <2>10. n \in Nat \ {0}
    BY <1>1, <2>1, ThreadFacts DEF ThreadOK, AllocStates
  <2>11. IsFiniteSet(Claimed(al2, b)) /\ Cardinality(Claimed(al2, b)) = n
    <3>1. /\ IsFiniteSet(Claimed(al2, b))
          /\ Cardinality(Claimed(al2, b)) = Cardinality(Claimed(al, b)) + al2[t].bytes
      BY <2>3, <2>7, <2>8, <2>9, ClaimMade
    <3> QED
      BY <2>6, <2>7, <2>9, <2>10, <3>1
  <2>12. x \in BlockStates /\ Fits(x, Claimed(al2, b))
    <3>1. Cardinality(Claimed(al2, b)) \in Nat /\ Cardinality(Claimed(al2, b)) <= n
      BY <2>10, <2>11
    <3> QED
      BY <1>0, <2>4, <2>10, <3>1, NewBlockFits
  <2>13. Links(bs, al, t, q, al2, x)
    BY <2>1, <2>6, <2>8, <2>10, <2>11, <2>12 DEF Links
  <2>14. /\ arena'.blocks = Append(bs, x) /\ arena'.head = hd
         /\ arena'.large = b /\ arena'.usage = arena.usage + ArHeader
    BY <2>1, <2>5 DEF ArInv, ArTypes
  <2>15. Typed(arena'.blocks, hd, al2) /\ ClaimsOK(arena'.blocks, hd, al2)
    <3>1. PICK bs2 : bs2 = arena'.blocks
      OBVIOUS
    <3>2. Typed(bs2, hd, al2) /\ ClaimsOK(bs2, hd, al2)
      BY <2>1, <2>2, <2>13, <2>14, <3>1, LinkKeeps
    <3> QED
      BY <3>1, <3>2
  <2>16. arena'.blocks \in Seq(BlockStates) /\ GrantsOK(arena'.blocks, granted)
    BY <2>1, <2>12, <2>14, InvLink
  <2>17. arena' \in [blocks : Seq(BlockStates), head : Nat, large : Nat, usage : Nat]
    <3>1. arena.usage + ArHeader \in Nat
      BY ArAssumption DEF ArInv, ArTypes
    <3> QED
      BY <2>3, <2>5, <2>14, <2>16, <3>1 DEF ArInv, ArTypes
  <2> QED
    BY <1>1, <2>1, <2>14, <2>15, <2>16, <2>17 DEF ArInv, ArTypes
<1> QED
  BY <1>2, <1>3

\* A thread with a claim stays with it and sees an end of its block.
LEMMA SeesEnd ==
  ASSUME ArInv, NEW t \in ArThreads, alloc[t].pc \in {"end", "move"}, NEW seen \in Nat,
         ArGoto(t, "move", alloc[t].block, seen), UNCHANGED <<arena, granted>>
  PROVE  ArInv'
<1>1. PICK a : a = alloc[t]
  OBVIOUS
<1>2. a \in AllocStates /\ a.block \in 1 .. Len(arena.blocks) /\ a.block \in Nat /\ a.bytes # 0
  BY <1>1, ThreadFacts DEF ThreadOK, AllocStates
<1>3. PICK q \in AllocStates :
        alloc' = [alloc EXCEPT ![t] = q] /\ q.pc = "move" /\ q.bytes = a.bytes /\ q.block = a.block
  BY <1>1, <1>2, Went, ThreadFacts DEF ArPCs
<1>4. \A b \in Nat : Claims(q, b) <=> Claims(a, b)
  BY <1>1, <1>3 DEF Claims
<1>5. Reads(arena.blocks, alloc, t, q)
  BY <1>1, <1>2, <1>3, <1>4 DEF Reads
<1> QED
  BY <1>3, <1>5, InvReads

LEMMA LoadEndKeeps ==
  ASSUME ArInv, NEW t \in ArThreads, LoadEnd(t)
  PROVE  ArInv'
<1>1. PICK b : b = arena.blocks[alloc[t].block]
  OBVIOUS
<1>2. b \in BlockStates
  BY <1>1, ThreadFacts DEF ThreadOK, LoadEnd
<1>3. EndOf(b, alloc[t].bytes) \in Nat
  BY <1>2 DEF EndOf, BlockStates
<1> QED
  BY <1>1, <1>3, SeesEnd DEF LoadEnd

\* Moving an end by n bytes, with the claim on them, and what is returned.
Moves(b, n, x, first) ==
  \/ FromUpper(n) /\ first = b.upper - n /\ x = [b EXCEPT !.upper = first]
  \/ ~ FromUpper(n) /\ first = b.lower /\ x = [b EXCEPT !.lower = first + n]

\* What is returned lay between the ends, and lies beyond one of them now.
Between(b, n, x, first) ==
  /\ first \in Nat /\ b.lower <= first /\ first + n <= b.upper
  /\ first >= x.upper \/ first + n <= x.lower
  /\ first + n <= x.size
  /\ n % ArAlign = 0 => first % ArAlign = 0

LEMMA EndMoved ==
  ASSUME NEW b \in BlockStates, NEW n \in Nat \ {0}, NEW C, NEW D, Cardinality(C) \in Nat,
         Cardinality(D) \in Nat, Cardinality(D) = Cardinality(C) - n, Fits(b, C),
         NEW x, NEW first, Moves(b, n, x, first)
  PROVE  /\ x \in BlockStates /\ Fits(x, D) /\ (Roomy(b, C) => Roomy(x, D))
         /\ x.size = b.size /\ x.upper <= b.upper /\ b.lower <= x.lower
         /\ Between(b, n, x, first)
<1>1. PICK lo, up, sz, rm, c : lo = b.lower /\ up = b.upper /\ sz = b.size /\ rm = b.rem /\ c = Cardinality(C)
  OBVIOUS
<1>2. lo \in Nat /\ up \in Nat /\ sz \in Nat /\ rm \in Nat /\ c \in Nat /\ c - n \in Nat
  BY <1>1 DEF BlockStates
<1>3. lo + c <= up /\ up <= sz /\ up % ArAlign = 0
  BY <1>1 DEF Fits
<1>4. lo + n <= up /\ up - n \in Nat
  BY <1>2, <1>3
<1>5. CASE FromUpper(n)
  <2>1. first = up - n /\ x = [b EXCEPT !.upper = first]
    BY <1>1, <1>5 DEF Moves
  <2>2. x \in BlockStates /\ x.lower = lo /\ x.upper = first /\ x.size = sz /\ x.rem = rm
    BY <1>1, <1>4, <2>1 DEF BlockStates
  <2>3. first % ArAlign = 0
    <3>1. n % ArAlign = 0 /\ n <= up /\ ArAlign \in Nat \ {0}
      BY <1>2, <1>4, <1>5, UpperSizes, ArAssumption
    <3> QED
      BY <1>2, <1>3, <2>1, <3>1, AlignedDifference
  <2>4. first \in Nat /\ lo + (c - n) <= first /\ first <= sz /\ first <= up /\ lo <= first /\ first + n = up
    BY <1>2, <1>3, <1>4, <2>1
  <2>5. Fits(x, D)
    BY <1>1, <2>2, <2>3, <2>4 DEF Fits
  <2>6. Roomy(b, C) => Roomy(x, D)
    BY <1>1, <1>2, <2>1, <2>2 DEF Roomy
  <2>7. Between(b, n, x, first)
    BY <1>1, <1>2, <1>3, <2>2, <2>3, <2>4 DEF Between
  <2> QED
    BY <1>1, <1>2, <2>2, <2>4, <2>5, <2>6, <2>7
<1>6. CASE ~ FromUpper(n)
  <2>1. first = lo /\ x = [b EXCEPT !.lower = first + n]
    BY <1>1, <1>6 DEF Moves
  <2>2. x \in BlockStates /\ x.lower = lo + n /\ x.upper = up /\ x.size = sz /\ x.rem = rm
    BY <1>1, <1>2, <2>1 DEF BlockStates
  <2>3. n % ArAlign # 0
    BY <1>6, UpperSizes
  <2>4. lo + n + (c - n) <= up /\ lo + n <= sz
    BY <1>2, <1>3, <1>4
  <2>5. Fits(x, D)
    BY <1>1, <1>3, <2>2, <2>4 DEF Fits
  <2>6. Roomy(b, C) => Roomy(x, D)
    BY <1>1, <1>2, <2>2 DEF Roomy
  <2>7. Between(b, n, x, first)
    BY <1>1, <1>2, <1>4, <2>1, <2>2, <2>3, <2>4 DEF Between
  <2> QED
    BY <1>1, <1>2, <2>2, <2>5, <2>6, <2>7
<1> QED
  BY <1>5, <1>6

\* What lay between the ends is apart from what lies beyond them, and new.
LEMMA BetweenApart ==
  ASSUME NEW b \in BlockStates, NEW n \in Nat \ {0}, NEW x, NEW first, Between(b, n, x, first),
         NEW g, g.first = first, g.bytes = n, NEW h, h.first \in Nat, h.bytes \in Nat, Beyond(b, h)
  PROVE  Apart(g, h) /\ g # h
<1>1. first \in Nat /\ b.lower <= first /\ first + n <= b.upper /\ b.lower \in Nat /\ b.upper \in Nat
  BY DEF Between, BlockStates
<1>2. h.first >= b.upper \/ h.first + h.bytes <= b.lower
  BY DEF Beyond
<1>3. Apart(g, h)
  BY <1>1, <1>2 DEF Apart
<1>4. g # h
  BY <1>1, <1>2
<1> QED
  BY <1>3, <1>4

\* The compare-and-swap succeeds.
MovesEnd(t, b, n, x, first, g) ==
  /\ alloc[t].pc = "move" /\ b = alloc[t].block /\ n = alloc[t].bytes
  /\ Moves(arena.blocks[b], n, x, first) /\ g = [block |-> b, first |-> first, bytes |-> n]
  /\ arena' = [arena EXCEPT !.blocks = [arena.blocks EXCEPT ![b] = x], !.usage = arena.usage + n]
  /\ granted' = granted \cup {g}
  /\ ArGoto(t, "idle", 0, 0)

LEMMA MoveEndCases ==
  ASSUME ArInv, NEW t \in ArThreads, MoveEnd(t)
  PROVE  \/ /\ \E seen \in Nat : ArGoto(t, "move", alloc[t].block, seen)
            /\ UNCHANGED <<arena, granted>>
         \/ \E b, n, x, first, g : MovesEnd(t, b, n, x, first, g)
<1>1. PICK b, n, seen, y : b = alloc[t].block /\ n = alloc[t].bytes /\ seen = alloc[t].seen /\ y = arena.blocks[b]
  OBVIOUS
<1>2. alloc[t].pc = "move"
  BY DEF MoveEnd
<1>3. y \in BlockStates
  BY <1>1, <1>2, ThreadFacts DEF ThreadOK
<1>4. EndOf(y, n) \in Nat
  BY <1>3 DEF EndOf, BlockStates
<1>5. CASE EndOf(y, n) # seen
  <2>1. ArGoto(t, "move", b, EndOf(y, n)) /\ UNCHANGED <<arena, granted>>
    BY <1>1, <1>5 DEF MoveEnd
  <2> QED
    BY <1>1, <1>4, <2>1
<1>6. CASE EndOf(y, n) = seen
  <2>1. PICK first, x :
          /\ first = IF FromUpper(n) THEN seen - n ELSE seen
          /\ x = IF FromUpper(n) THEN [y EXCEPT !.upper = seen - n] ELSE [y EXCEPT !.lower = seen + n]
    OBVIOUS
  <2>2. Moves(y, n, x, first)
    <3>1. CASE FromUpper(n)
      BY <1>6, <2>1, <3>1 DEF Moves, EndOf
    <3>2. CASE ~ FromUpper(n)
      BY <1>6, <2>1, <3>2 DEF Moves, EndOf
    <3> QED
      BY <3>1, <3>2
  <2>3. PICK g : g = [block |-> b, first |-> first, bytes |-> n]
    OBVIOUS
  <2>4. arena' = [arena EXCEPT !.blocks = [arena.blocks EXCEPT ![b] = x], !.usage = arena.usage + n]
    <3>1. arena' = [arena EXCEPT
                      !.blocks[b] = IF FromUpper(n) THEN [@ EXCEPT !.upper = seen - n]
                                                    ELSE [@ EXCEPT !.lower = seen + n],
                      !.usage = @ + n]
      BY <1>1, <1>6 DEF MoveEnd
    <3> QED
      BY <1>1, <2>1, <3>1
  <2>5. granted' = granted \cup {g} /\ ArGoto(t, "idle", 0, 0)
    BY <1>1, <1>6, <2>1, <2>3 DEF MoveEnd, Grant
  <2> QED
    BY <1>1, <1>2, <2>2, <2>3, <2>4, <2>5 DEF MovesEnd
<1> QED
  BY <1>5, <1>6

\* The end is moved: the claim is used and what is returned is new.
LEMMA EndKeeps ==
  ASSUME ArInv, NEW t \in ArThreads, NEW b, NEW n, NEW x, NEW first, NEW g, MovesEnd(t, b, n, x, first, g)
  PROVE  ArInv' /\ g \notin granted
<1>1. PICK bs, hd, al, al2 : bs = arena.blocks /\ hd = arena.head /\ al = alloc /\ al2 = alloc'
  OBVIOUS
<1>2. /\ al[t].pc = "move" /\ b = al[t].block /\ n = al[t].bytes /\ Moves(bs[b], n, x, first)
      /\ g = [block |-> b, first |-> first, bytes |-> n]
      /\ arena' = [arena EXCEPT !.blocks = [bs EXCEPT ![b] = x], !.usage = arena.usage + n]
      /\ granted' = granted \cup {g} /\ ArGoto(t, "idle", 0, 0)
  BY <1>1 DEF MovesEnd
<1>3. Typed(bs, hd, al) /\ ClaimsOK(bs, hd, al) /\ GrantsOK(bs, granted)
  BY <1>1 DEF ArInv
<1>4. n \in Nat \ {0} /\ b \in 1 .. Len(bs) /\ b \in Nat /\ bs[b] \in BlockStates
  BY <1>1, <1>2, ThreadFacts DEF ThreadOK, AllocStates
<1>5. PICK q \in AllocStates : al2 = [al EXCEPT ![t] = q] /\ q.pc = "idle"
  <2>1. alloc \in [ArThreads -> AllocStates] /\ "idle" \in ArPCs /\ 0 \in Nat
    BY ThreadFacts DEF ArPCs
  <2>2. \E q \in AllocStates :
          /\ alloc' = [alloc EXCEPT ![t] = q]
          /\ q.pc = "idle" /\ q.bytes = alloc[t].bytes /\ q.block = 0 /\ q.seen = 0
    BY <1>2, <2>1, Went
  <2> QED
    BY <1>1, <2>2
<1>6. Others(al, al2, t) /\ al2[t] = q
  BY <1>3, <1>5, CallTyped DEF Typed
<1>7. Claims(al[t], b) /\ (\A c : ~ Claims(q, c)) /\ \A c \in Nat \ {b} : ~ Claims(al[t], c)
  BY <1>2, <1>5 DEF Claims
<1>8. /\ IsFiniteSet(Claimed(al, b)) /\ Cardinality(Claimed(al, b)) \in Nat /\ Fits(bs[b], Claimed(al, b))
  BY <1>3, <1>4, FS_CardinalityType DEF ClaimsOK
<1>9. /\ IsFiniteSet(Claimed(al2, b)) /\ Cardinality(Claimed(al2, b)) \in Nat
      /\ Cardinality(Claimed(al2, b)) = Cardinality(Claimed(al, b)) - n
  BY <1>2, <1>4, <1>6, <1>7, <1>8, ClaimUsed, FS_CardinalityType
<1>10. /\ x \in BlockStates /\ Fits(x, Claimed(al2, b))
       /\ Roomy(bs[b], Claimed(al, b)) => Roomy(x, Claimed(al2, b))
       /\ x.size = bs[b].size /\ x.upper <= bs[b].upper /\ bs[b].lower <= x.lower
       /\ Between(bs[b], n, x, first)
  BY <1>2, <1>4, <1>8, <1>9, EndMoved
<1>11. PICK bs2 : bs2 = [bs EXCEPT ![b] = x]
  OBVIOUS
<1>12. bs2 \in Seq(BlockStates) /\ Len(bs2) = Len(bs) /\ bs2[b] = x
  BY <1>3, <1>4, <1>10, <1>11, ExceptSeq DEF Typed
<1>13. Changes(bs, al, t, q, al2, b, x)
  BY <1>4, <1>5, <1>7, <1>9, <1>10 DEF Changes
<1>14. Typed(bs2, hd, al2) /\ ClaimsOK(bs2, hd, al2)
  BY <1>3, <1>11, <1>13, BlockKeeps
<1>15. /\ arena' \in [blocks : Seq(BlockStates), head : Nat, large : Nat, usage : Nat]
       /\ arena'.blocks = bs2 /\ arena'.head = hd
  <2>1. arena.usage + n \in Nat
    BY <1>4 DEF ArInv, ArTypes
  <2> QED
    BY <1>1, <1>2, <1>11, <1>12, <2>1 DEF ArInv, ArTypes
<1>16. GrantsOK(bs2, granted)
  BY <1>1, <1>4, <1>10, <1>11, <1>15, InvBlock
<1>17. g.block = b /\ g.first = first /\ g.bytes = n
  BY <1>2
<1>18. GrantOK(bs2, g)
  <2>1. g \in [block : 1 .. Len(bs2), first : Nat, bytes : Nat]
    BY <1>2, <1>4, <1>10, <1>12 DEF Between
  <2>2. Beyond(x, g)
    BY <1>10, <1>17 DEF Between, Beyond
  <2> QED
    BY <1>10, <1>12, <1>17, <2>1, <2>2 DEF GrantOK, Between
<1>19. ASSUME NEW h \in granted PROVE Apart(g, h) /\ g # h
  <2>1. GrantOK(bs, h)
    BY <1>3 DEF GrantsOK
  <2>2. h.first \in Nat /\ h.bytes \in Nat /\ Beyond(bs[h.block], h)
    BY <2>1 DEF GrantOK
  <2>3. CASE h.block = b
    BY <1>4, <1>10, <1>17, <2>2, <2>3, BetweenApart
  <2>4. CASE h.block # b
    BY <1>17, <2>4 DEF Apart
  <2> QED
    BY <2>3, <2>4
<1>20. GrantsOK(bs2, granted')
  BY <1>2, <1>16, <1>18, <1>19, GrantAdded
<1> QED
  BY <1>1, <1>14, <1>15, <1>19, <1>20 DEF ArInv, ArTypes

LEMMA MoveEndKeeps ==
  ASSUME ArInv, NEW t \in ArThreads, MoveEnd(t)
  PROVE  ArInv'
<1>1. alloc[t].pc \in {"end", "move"}
  BY DEF MoveEnd
<1>2. ASSUME NEW seen \in Nat, ArGoto(t, "move", alloc[t].block, seen), UNCHANGED <<arena, granted>>
      PROVE  ArInv'
  BY <1>1, <1>2, SeesEnd
<1>3. ASSUME NEW b, NEW n, NEW x, NEW first, NEW g, MovesEnd(t, b, n, x, first, g)
      PROVE  ArInv'
  BY <1>3, EndKeeps
<1> QED
  BY <1>2, <1>3, MoveEndCases

-----------------------------------------------------------------------------
(* The theorems. *)

LEMMA ArStarts == ArInit => ArInv
<1> SUFFICES ASSUME ArInit PROVE ArInv
  OBVIOUS
<1>1. PICK plan \in ArPlans :
        alloc = [t \in ArThreads |-> [pc |-> "idle", bytes |-> 0, block |-> 0, seen |-> 0, todo |-> plan[t]]]
  BY DEF ArInit
<1>2. plan \in [ArThreads -> Seq(Nat \ {0})]
  BY ArAssumption
<1>3. alloc \in [ArThreads -> AllocStates] /\ \A t \in ArThreads : alloc[t].pc = "idle"
  BY <1>1, <1>2 DEF AllocStates
<1>4. \A b : Claimed(alloc, b) = {}
  BY <1>3 DEF Claimed, Claims
<1>5. \A b : IsFiniteSet(Claimed(alloc, b)) /\ Cardinality(Claimed(alloc, b)) = 0
  BY <1>4, FS_EmptySet
<1>6. PICK x : x = NewBlock(ArBlock, 0)
  OBVIOUS
<1>7. x \in BlockStates /\ Fits(x, Claimed(alloc, 1)) /\ Roomy(x, Claimed(alloc, 1))
  <2>1. ArBlock \in Nat /\ 0 <= ArBlock
    BY ArAssumption
  <2> QED
    BY <1>5, <1>6, <2>1, NewBlockFits
<1>8. /\ arena = [blocks |-> <<x>>, head |-> 1, large |-> 0, usage |-> 2 * ArHeader]
      /\ granted = {}
  BY <1>6 DEF ArInit
<1>9. arena.blocks = <<x>> /\ arena.head = 1
  BY <1>8
<1>10. <<x>> \in Seq(BlockStates) /\ Len(<<x>>) = 1 /\ <<x>>[1] = x
  BY <1>7
<1>11. 1 .. 1 = {1}
  OBVIOUS
<1>12. ArTypes
  <2>1. 2 * ArHeader \in Nat
    BY ArAssumption
  <2> QED
    BY <1>8, <1>10, <2>1 DEF ArTypes
<1>13. Typed(<<x>>, 1, alloc)
  BY <1>3, <1>10, <1>11 DEF Typed
<1>14. ClaimsOK(<<x>>, 1, alloc)
  <2>1. \A t \in ArThreads : ThreadOK(<<x>>, alloc, t)
    BY <1>3 DEF ThreadOK
  <2>2. \A b \in 1 .. Len(<<x>>) : Fits(<<x>>[b], Claimed(alloc, b))
    BY <1>7, <1>10, <1>11
  <2> QED
    BY <1>5, <1>7, <1>10, <2>1, <2>2 DEF ClaimsOK
<1>15. GrantsOK(<<x>>, granted)
  BY <1>8 DEF GrantsOK
<1> QED
  BY <1>9, <1>12, <1>13, <1>14, <1>15 DEF ArInv

LEMMA ArSteps == ArInv /\ [ArNext]_arVars => ArInv'
<1> SUFFICES ASSUME ArInv, [ArNext]_arVars PROVE ArInv'
  OBVIOUS
<1>1. CASE UNCHANGED arVars
  BY <1>1 DEF arVars, ArInv, ArTypes
<1>2. ASSUME NEW t \in ArThreads, ArStep(t) PROVE ArInv'
  BY <1>2, AllocateCallKeeps, LoadBlockKeeps, LoadRemKeeps, TakeRemKeeps, PushBlockKeeps,
     LoadLargeKeeps, PushLargeKeeps, LoadEndKeeps, MoveEndKeeps DEF ArStep
<1> QED
  BY <1>1, <1>2 DEF ArNext

\* The claims on a block and what rem still offers fit between its two ends,
\* and what Allocate returned lies beyond them.
THEOREM ArenaInvariant == ArSpec => []ArInv
BY ArStarts, ArSteps, PTL DEF ArSpec

\* No two calls of Allocate return overlapping memory or memory outside of
\* their block, for any number of threads and any sizes.
THEOREM AllocationsAlwaysDisjoint == ArSpec => []AllocationsDisjoint
<1>1. ArInv => AllocationsDisjoint
  <2> SUFFICES ASSUME ArInv, NEW g \in granted
               PROVE  /\ g.first >= 0 /\ g.first + g.bytes <= arena.blocks[g.block].size
                      /\ \A h \in granted \ {g} : Apart(g, h)
    BY DEF AllocationsDisjoint, Apart
  <2>1. GrantOK(arena.blocks, g) /\ \A h \in granted \ {g} : Apart(g, h)
    BY DEF ArInv, GrantsOK
  <2>2. g.first \in Nat /\ g.first + g.bytes <= arena.blocks[g.block].size
    BY <2>1 DEF GrantOK, Beyond
  <2> QED
    BY <2>1, <2>2
<1> QED
  BY <1>1, ArenaInvariant, PTL

\* The assertions of AllocateAligned and AllocateFinalize: multiples of align_
\* get aligned addresses, and the ends of a block never cross.
THEOREM AlwaysAlignedAndUncrossed == ArSpec => []AlignedAndUncrossed
<1>1. ArInv => AlignedAndUncrossed
  <2> SUFFICES ASSUME ArInv PROVE AlignedAndUncrossed
    OBVIOUS
  <2>1. \A g \in granted : g.bytes % ArAlign = 0 => g.first % ArAlign = 0
    BY DEF ArInv, GrantsOK, GrantOK
  <2>2. ASSUME NEW b \in DOMAIN arena.blocks PROVE arena.blocks[b].lower <= arena.blocks[b].upper
    <3>1. b \in 1 .. Len(arena.blocks) /\ Len(arena.blocks) \in Nat /\ arena.blocks[b] \in BlockStates
      BY LenProperties, ElementOfSeq DEF ArInv, Typed
    <3>2. PICK C : C = Claimed(alloc, b)
      OBVIOUS
    <3>3. Fits(arena.blocks[b], C) /\ IsFiniteSet(C)
      BY <3>1, <3>2 DEF ArInv, ClaimsOK
    <3>4. Cardinality(C) \in Nat
      BY <3>3, FS_CardinalityType
    <3> QED
      BY <3>1, <3>3, <3>4 DEF Fits, BlockStates
  <2> QED
    BY <2>1, <2>2 DEF AlignedAndUncrossed
<1> QED
  BY <1>1, ArenaInvariant, PTL

\* A step of another thread, or to another place, is no return.
LEMMA ReturnsByMove ==
  ASSUME ArInv, [ArNext]_arVars, NEW t \in ArThreads, alloc[t].pc = "move", alloc'[t].pc = "idle"
  PROVE  MoveEnd(t)
<1>1. alloc' # alloc
  OBVIOUS
<1>2. PICK u \in ArThreads : ArStep(u)
  BY <1>1 DEF ArNext, arVars
<1>3. \A v \in ArThreads \ {u} : alloc'[v] = alloc[v]
  BY <1>2, ThreadFacts DEF ArStep, AllocateCall, LoadBlock, LoadRem, TakeRem, CasRem, PushBlock, LoadLarge,
     PushLarge, LoadEnd, MoveEnd, ArGoto
<1>4. u = t
  BY <1>3
<1> QED
  BY <1>2, <1>4 DEF ArStep, AllocateCall, LoadBlock, LoadRem, TakeRem, PushBlock, LoadLarge, PushLarge, LoadEnd,
     ArGoto

\* Every call that returns is given memory that no call was given before.
THEOREM EachCallIsGranted == ArSpec => EachCallGranted
<1>1. ASSUME ArInv, [ArNext]_arVars, NEW t \in ArThreads, alloc[t].pc = "move", alloc'[t].pc = "idle"
      PROVE  \E g \in granted' \ granted : g.block = alloc[t].block /\ g.bytes = alloc[t].bytes
  <2>1. MoveEnd(t)
    BY <1>1, ReturnsByMove
  <2>2. ASSUME NEW seen \in Nat, ArGoto(t, "move", alloc[t].block, seen) PROVE FALSE
    BY <1>1, <2>2, ThreadFacts DEF ArGoto, AllocStates
  <2>3. PICK b, n, x, first, g : MovesEnd(t, b, n, x, first, g)
    BY <1>1, <2>1, <2>2, MoveEndCases
  <2>4. g \notin granted
    BY <1>1, <2>3, EndKeeps
  <2>5. g.block = alloc[t].block /\ g.bytes = alloc[t].bytes /\ g \in granted'
    BY <2>3 DEF MovesEnd
  <2> QED
    BY <2>4, <2>5
<1>2. ArInv /\ [ArNext]_arVars =>
        [\A t \in ArThreads : alloc[t].pc = "move" /\ alloc'[t].pc = "idle" =>
           \E g \in granted' \ granted : g.block = alloc[t].block /\ g.bytes = alloc[t].bytes]_arVars
  BY <1>1
<1> QED
  BY <1>2, ArenaInvariant, PTL DEF ArSpec, EachCallGranted
=============================================================================
