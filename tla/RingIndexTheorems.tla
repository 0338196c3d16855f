-------------------------- MODULE RingIndexTheorems --------------------------
(***************************************************************************)
(* Facts about wrapping ring indices, for every index width and every ring *)
(* size that divides it: the modular operators in linear form, and the one *)
(* fact that makes `idx & mask` sound across the wrap, that fewer than     *)
(* Size consecutive indices never share a slot.                            *)
(***************************************************************************)
EXTENDS RingIndex, Sequences, TLAPS

\* The linear part of the assumption on the ring's dimensions.
LEMMA RingBounds == Modulus \in Nat /\ Size \in Nat /\ 0 < Size /\ Size < Modulus
BY RingAssumption

\* A u32 subtraction borrows at most once: how WrapSub, the difference of two
\* ring counters, is computed.
LEMMA WrapSubLinear ==
  ASSUME NEW a \in Index, NEW b \in Index
  PROVE  WrapSub(a, b) = IF a >= b THEN a - b ELSE a - b + Modulus
BY RingAssumption DEF Index, WrapSub

\* A u32 addition carries at most once: how WrapAdd advances a ring counter.
LEMMA WrapAddLinear ==
  ASSUME NEW a \in Index, NEW b \in Index
  PROVE  WrapAdd(a, b) = IF a + b < Modulus THEN a + b ELSE a + b - Modulus
BY RingAssumption DEF Index, WrapAdd

\* The results of both are ring indices again.
LEMMA WrapType ==
  ASSUME NEW a \in Index, NEW b \in Index
  PROVE  WrapAdd(a, b) \in Index /\ WrapSub(a, b) \in Index
BY RingAssumption DEF Index, WrapAdd, WrapSub

\* `idx & mask` is always one of the ring's slots.
LEMMA SlotType ==
  ASSUME NEW a \in Int
  PROVE  Slot(a) \in SlotId
BY RingAssumption DEF SlotId, Slot

\* Division with remainder, as the provers need it spelt out.
LEMMA DivMod ==
  ASSUME NEW a \in Nat, NEW n \in Nat \ {0}
  PROVE  /\ a \div n \in Int
         /\ a % n \in 0 .. (n - 1)
         /\ a = n * (a \div n) + (a % n)
OBVIOUS

\* A remainder in range is the remainder.
LEMMA ModUnique ==
  ASSUME NEW n \in Nat \ {0}, NEW q \in Int, NEW r \in 0 .. (n - 1), NEW a \in Int,
         a = n * q + r
  PROVE  a % n = r
OBVIOUS

\* Zero is the only multiple of n closer to zero than n.
LEMMA NoSmallMultiple ==
  ASSUME NEW n \in Nat \ {0}, NEW k \in Int, k * n < n, k * n > -n
  PROVE  k = 0
<1>1. CASE k >= 1
  <2>1. k * n >= n
    BY <1>1
  <2> QED BY <2>1
<1>2. CASE k <= -1
  <2>1. (-k) * n >= n
    BY <1>2
  <2>2. (-k) * n = -(k * n)
    OBVIOUS
  <2> QED BY <2>1, <2>2
<1> QED BY <1>1, <1>2

\* Two unwrapped positions less than Size apart lie in different slots.
LEMMA NearbySlotsDiffer ==
  ASSUME NEW a \in Nat, NEW b \in Nat, a < b, b - a < Size
  PROVE  Slot(a) # Slot(b)
<1> DEFINE qa == a \div Size
<1> DEFINE qb == b \div Size
<1> SUFFICES ASSUME Slot(a) = Slot(b) PROVE FALSE
  OBVIOUS
<1>1. /\ qa \in Int /\ qb \in Int /\ Slot(a) \in Int /\ Slot(b) \in Int
      /\ a = Size * qa + Slot(a)
      /\ b = Size * qb + Slot(b)
  BY RingAssumption, DivMod DEF Slot
<1> HIDE DEF qa, qb
<1>2. Size * qa \in Int /\ Size * qb \in Int
  BY <1>1, RingAssumption
<1>3. b - a = Size * qb - Size * qa
  BY <1>1, <1>2
<1>4. Size * qb - Size * qa = (qb - qa) * Size
  BY <1>1, RingAssumption
<1>5. (qb - qa) * Size < Size /\ (qb - qa) * Size > -Size
  BY <1>3, <1>4, RingAssumption
<1>6. qb - qa = 0
  BY <1>1, <1>5, NoSmallMultiple, RingAssumption
<1>7. qa = qb
  BY <1>1, <1>6
<1> QED BY <1>2, <1>3, <1>7

\* Wrapping a position does not change its slot, because Size divides Modulus.
LEMMA SlotIgnoresWrap ==
  ASSUME NEW a \in Nat
  PROVE  Slot(a + Modulus) = Slot(a)
<1> DEFINE qa == a \div Size
<1> DEFINE qm == Modulus \div Size
<1>1. PICK r \in 0 .. (Size - 1) : r = a % Size
  BY RingAssumption, DivMod
<1>2. qa \in Int /\ qm \in Int /\ a = Size * qa + r /\ Modulus = Size * qm + 0
  BY <1>1, RingAssumption, DivMod
<1> HIDE DEF qa, qm
<1>3. Size * qa \in Int /\ Size * qm \in Int
  BY <1>2, RingAssumption
<1>4. Size * (qa + qm) = Size * qa + Size * qm
  BY <1>2, RingAssumption
<1>5. a + Modulus = Size * (qa + qm) + r
  BY <1>2, <1>3, <1>4, RingAssumption
<1>6. qa + qm \in Int /\ a + Modulus \in Int
  BY <1>2, RingAssumption
<1>7. (a + Modulus) % Size = r
  BY <1>5, <1>6, ModUnique, RingAssumption
<1> QED BY <1>1, <1>7 DEF Slot

\* The slot of a ring counter advanced by k is that of the unwrapped position.
LEMMA SlotOfSum ==
  ASSUME NEW a \in Index, NEW k \in Index
  PROVE  Slot(WrapAdd(a, k)) = Slot(a + k)
<1>1. CASE a + k < Modulus
  BY <1>1, WrapAddLinear
<1>2. CASE ~(a + k < Modulus)
  <2> DEFINE w == a + k - Modulus
  <2>1. w \in Nat /\ a + k = w + Modulus
    BY <1>2, RingAssumption DEF Index
  <2>2. WrapAdd(a, k) = w
    BY <1>2, WrapAddLinear
  <2> HIDE DEF w
  <2>3. Slot(w + Modulus) = Slot(w)
    BY <2>1, SlotIgnoresWrap
  <2> QED BY <2>1, <2>2, <2>3
<1> QED BY <1>1, <1>2

\* The Size indices from any counter on occupy Size different slots: why a ring
\* whose counters are at most Size apart never overwrites a live entry.
THEOREM WindowSlotsDiffer ==
  ASSUME NEW a \in Index, NEW j \in SlotId, NEW k \in SlotId, j # k
  PROVE  Slot(WrapAdd(a, j)) # Slot(WrapAdd(a, k))
<1>1. j \in Index /\ k \in Index /\ a \in Nat
  BY RingAssumption DEF Index, SlotId
<1>2. Slot(WrapAdd(a, j)) = Slot(a + j) /\ Slot(WrapAdd(a, k)) = Slot(a + k)
  BY <1>1, SlotOfSum
<1>3. a + j \in Nat /\ a + k \in Nat
  BY <1>1 DEF Index
<1>4. CASE j < k
  <2>1. a + j < a + k /\ (a + k) - (a + j) < Size
    BY <1>1, <1>4, RingAssumption DEF SlotId, Index
  <2> QED BY <1>2, <1>3, <2>1, NearbySlotsDiffer
<1>5. CASE k < j
  <2>1. a + k < a + j /\ (a + j) - (a + k) < Size
    BY <1>1, <1>5, RingAssumption DEF SlotId, Index
  <2>2. Slot(a + k) # Slot(a + j)
    BY <1>3, <2>1, NearbySlotsDiffer
  <2> QED BY <1>2, <2>2
<1>6. j < k \/ k < j
  BY <1>1 DEF Index
<1> QED BY <1>4, <1>5, <1>6

-----------------------------------------------------------------------------
(* Distances between counters *)

\* The arithmetic of a granted reservation: nb slots move from what the cached
\* consumer index shows to be free into what is reserved.
LEMMA AdvanceWithin ==
  ASSUME NEW p \in Index, NEW cc \in Index, NEW n \in Index, WrapSub(cc, p) >= n
  PROVE  /\ WrapSub(WrapAdd(p, n), p) = n
         /\ WrapSub(cc, WrapAdd(p, n)) = WrapSub(cc, p) - n
<1>1. PICK w \in Index : w = WrapAdd(p, n)
  BY WrapType
<1>2. w = IF p + n < Modulus THEN p + n ELSE p + n - Modulus
  BY <1>1, WrapAddLinear
<1>3. WrapSub(cc, p) = IF cc >= p THEN cc - p ELSE cc - p + Modulus
  BY WrapSubLinear
<1>4. WrapSub(w, p) = IF w >= p THEN w - p ELSE w - p + Modulus
  BY WrapSubLinear
<1>5. WrapSub(cc, w) = IF cc >= w THEN cc - w ELSE cc - w + Modulus
  BY WrapSubLinear
<1> QED BY <1>1, <1>2, <1>3, <1>4, <1>5, RingBounds DEF Index

\* Reading the consumer index again shows all the free slots there are.
LEMMA RefreshShowsAll ==
  ASSUME NEW p \in Index, NEW c \in Index, WrapSub(p, c) <= Size
  PROVE  /\ WrapAdd(c, Size) \in Index
         /\ WrapSub(WrapAdd(c, Size), p) = Size - WrapSub(p, c)
<1>1. Size \in Index
  BY RingAssumption DEF Index
<1>2. PICK w \in Index : w = WrapAdd(c, Size)
  BY <1>1, WrapType
<1>3. w = IF c + Size < Modulus THEN c + Size ELSE c + Size - Modulus
  BY <1>1, <1>2, WrapAddLinear
<1>4. WrapSub(p, c) = IF p >= c THEN p - c ELSE p - c + Modulus
  BY WrapSubLinear
<1>5. WrapSub(w, p) = IF w >= p THEN w - p ELSE w - p + Modulus
  BY WrapSubLinear
<1> QED BY <1>2, <1>3, <1>4, <1>5, RingBounds DEF Index

\* Distances between counters add up as long as they do not lap the index.
LEMMA DistancesAdd ==
  ASSUME NEW a \in Index, NEW b \in Index, NEW c \in Index,
         WrapSub(b, a) + WrapSub(c, b) < Modulus
  PROVE  WrapSub(c, a) = WrapSub(b, a) + WrapSub(c, b)
<1>1. WrapSub(b, a) = IF b >= a THEN b - a ELSE b - a + Modulus
  BY WrapSubLinear
<1>2. WrapSub(c, b) = IF c >= b THEN c - b ELSE c - b + Modulus
  BY WrapSubLinear
<1>3. WrapSub(c, a) = IF c >= a THEN c - a ELSE c - a + Modulus
  BY WrapSubLinear
<1> QED BY <1>1, <1>2, <1>3, RingBounds DEF Index

\* A distance of zero is equality.
LEMMA ZeroDistance ==
  ASSUME NEW a \in Index, NEW b \in Index
  PROVE  WrapSub(a, b) \in Nat /\ (WrapSub(a, b) = 0 <=> a = b)
<1>1. WrapSub(a, b) = IF a >= b THEN a - b ELSE a - b + Modulus
  BY WrapSubLinear
<1> QED BY <1>1, RingBounds DEF Index

\* A counter advanced by n is n ahead.
LEMMA AdvanceBy ==
  ASSUME NEW p \in Index, NEW n \in Index
  PROVE  WrapSub(WrapAdd(p, n), p) = n
<1>1. PICK w \in Index : w = WrapAdd(p, n)
  BY WrapType
<1>2. w = IF p + n < Modulus THEN p + n ELSE p + n - Modulus
  BY <1>1, WrapAddLinear
<1>3. WrapSub(w, p) = IF w >= p THEN w - p ELSE w - p + Modulus
  BY WrapSubLinear
<1> QED BY <1>1, <1>2, <1>3, RingBounds DEF Index

\* Advancing a counter in two steps.
LEMMA WrapAddTwice ==
  ASSUME NEW a \in Index, NEW m \in Nat, NEW n \in Nat, m + n < Modulus
  PROVE  WrapAdd(WrapAdd(a, m), n) = WrapAdd(a, m + n)
<1>1. m \in Index /\ n \in Index /\ m + n \in Index
  BY RingBounds DEF Index
<1>2. PICK w \in Index : w = WrapAdd(a, m)
  BY <1>1, WrapType
<1>3. w = IF a + m < Modulus THEN a + m ELSE a + m - Modulus
  BY <1>1, <1>2, WrapAddLinear
<1>4. WrapAdd(w, n) = IF w + n < Modulus THEN w + n ELSE w + n - Modulus
  BY <1>1, WrapAddLinear
<1>5. WrapAdd(a, m + n) = IF a + (m + n) < Modulus THEN a + (m + n) ELSE a + (m + n) - Modulus
  BY <1>1, WrapAddLinear
<1> QED BY <1>1, <1>2, <1>3, <1>4, <1>5, RingBounds DEF Index

\* The distance to a counter is what it takes to get there.
LEMMA WrapAddSub ==
  ASSUME NEW a \in Index, NEW b \in Index
  PROVE  WrapAdd(a, WrapSub(b, a)) = b
<1>1. PICK d \in Index : d = WrapSub(b, a)
  BY WrapType
<1>2. d = IF b >= a THEN b - a ELSE b - a + Modulus
  BY <1>1, WrapSubLinear
<1>3. WrapAdd(a, d) = IF a + d < Modulus THEN a + d ELSE a + d - Modulus
  BY WrapAddLinear
<1> QED BY <1>1, <1>2, <1>3, RingBounds DEF Index

-----------------------------------------------------------------------------
(* Stretches of a ring *)

\* What the n slots from index `from` on hold, in order.
Stretch(ring, from, n) == [k \in 1 .. n |-> ring[Slot(WrapAdd(from, k - 1))]]

\* Everything the slots of a ring hold.
SlotValues(ring) == {ring[x] : x \in SlotId}

\* Sequences of the same length with the same elements are equal.
LEMMA SameSequence ==
  ASSUME NEW S, NEW s \in Seq(S), NEW t \in Seq(S), Len(s) = Len(t),
         \A k \in 1 .. Len(s) : s[k] = t[k]
  PROVE  s = t
OBVIOUS

\* A concatenation is a sequence again, and as long as its parts.
LEMMA ConcatFacts ==
  ASSUME NEW S, NEW s \in Seq(S), NEW t \in Seq(S)
  PROVE  s \o t \in Seq(S) /\ Len(s \o t) = Len(s) + Len(t)
OBVIOUS

\* A stretch is a sequence of n entries.
LEMMA StretchType ==
  ASSUME NEW ring, NEW from \in Index, NEW n \in Nat, n <= Size
  PROVE  /\ Stretch(ring, from, n) \in Seq(SlotValues(ring))
         /\ Len(Stretch(ring, from, n)) = n
         /\ \A k \in 1 .. n : Stretch(ring, from, n)[k] = ring[Slot(WrapAdd(from, k - 1))]
<1>1. ASSUME NEW k \in 1 .. n PROVE ring[Slot(WrapAdd(from, k - 1))] \in SlotValues(ring)
  <2>1. k - 1 \in Index
    BY RingBounds DEF Index
  <2>2. WrapAdd(from, k - 1) \in Int
    BY <2>1, WrapType DEF Index
  <2> QED BY <2>2, SlotType DEF SlotValues
<1> QED BY <1>1 DEF Stretch

\* The stretch of length zero is empty.
LEMMA StretchEmpty ==
  ASSUME NEW ring, NEW from
  PROVE  Stretch(ring, from, 0) = <<>>
BY DEF Stretch

\* Two adjacent stretches make one, also across the wrap of the index.
LEMMA StretchConcat ==
  ASSUME NEW ring, NEW from \in Index, NEW m \in Nat, NEW n \in Nat,
         m + n <= Size
  PROVE  Stretch(ring, from, m + n) = Stretch(ring, from, m) \o Stretch(ring, WrapAdd(from, m), n)
<1> DEFINE S == SlotValues(ring)
           a == Stretch(ring, from, m)
           b == Stretch(ring, WrapAdd(from, m), n)
           c == Stretch(ring, from, m + n)
<1>0. m <= Size /\ n <= Size /\ m + n \in Nat
  BY RingBounds
<1>1. WrapAdd(from, m) \in Index
  BY RingBounds, WrapType DEF Index
<1>2. /\ a \in Seq(S) /\ Len(a) = m
      /\ \A k \in 1 .. m : a[k] = ring[Slot(WrapAdd(from, k - 1))]
  BY <1>0, StretchType
<1>3. /\ b \in Seq(S) /\ Len(b) = n
      /\ \A k \in 1 .. n : b[k] = ring[Slot(WrapAdd(WrapAdd(from, m), k - 1))]
  BY <1>0, <1>1, StretchType
<1>4. /\ c \in Seq(S) /\ Len(c) = m + n
      /\ \A k \in 1 .. (m + n) : c[k] = ring[Slot(WrapAdd(from, k - 1))]
  BY <1>0, StretchType
<1> HIDE DEF S, a, b, c
<1>5. a \o b \in Seq(S) /\ Len(a \o b) = m + n
  BY <1>2, <1>3, ConcatFacts
<1>6. ASSUME NEW k \in 1 .. (m + n) PROVE c[k] = (a \o b)[k]
  <2>1. CASE k <= m
    <3>1. (a \o b)[k] = a[k]
      BY <1>2, <1>3, <2>1
    <3> QED BY <1>2, <1>4, <2>1, <3>1
  <2>2. CASE ~(k <= m)
    <3>1. (a \o b)[k] = b[k - m]
      BY <1>2, <1>3, <2>2
    <3>2. k - m \in 1 .. n /\ m + (k - m - 1) = k - 1 /\ k - m - 1 \in Nat /\ k - 1 < Modulus
      BY <2>2, RingBounds
    <3>3. WrapAdd(WrapAdd(from, m), k - m - 1) = WrapAdd(from, k - 1)
      BY <3>2, WrapAddTwice
    <3>4. b[k - m] = ring[Slot(WrapAdd(WrapAdd(from, m), k - m - 1))]
      BY <1>3, <3>2
    <3>5. c[k] = ring[Slot(WrapAdd(from, k - 1))]
      BY <1>4
    <3> QED BY <3>1, <3>3, <3>4, <3>5
  <2> QED BY <2>1, <2>2
<1>7. c = a \o b
  BY <1>4, <1>5, <1>6, SameSequence
<1> QED BY <1>7 DEF a, b, c

\* Taking the oldest entry of a stretch.
LEMMA StretchTake ==
  ASSUME NEW ring, NEW from \in Index, NEW n \in Nat, n > 0, n <= Size
  PROVE  /\ Stretch(ring, from, n) # <<>>
         /\ Head(Stretch(ring, from, n)) = ring[Slot(from)]
         /\ Tail(Stretch(ring, from, n)) = Stretch(ring, WrapAdd(from, 1), n - 1)
<1> DEFINE S == SlotValues(ring)
           a == Stretch(ring, from, n)
           b == Stretch(ring, WrapAdd(from, 1), n - 1)
<1>1. WrapAdd(from, 1) \in Index /\ WrapAdd(from, 0) = from /\ 0 \in Index
  <2>1. 0 \in Index /\ 1 \in Index
    BY RingBounds DEF Index
  <2>2. WrapAdd(from, 0) = IF from + 0 < Modulus THEN from + 0 ELSE from + 0 - Modulus
    BY <2>1, WrapAddLinear
  <2> QED BY <2>1, <2>2, WrapType, RingBounds DEF Index
<1>2. /\ a \in Seq(S) /\ Len(a) = n
      /\ \A k \in 1 .. n : a[k] = ring[Slot(WrapAdd(from, k - 1))]
  BY StretchType
<1>3. /\ b \in Seq(S) /\ Len(b) = n - 1
      /\ \A k \in 1 .. (n - 1) : b[k] = ring[Slot(WrapAdd(WrapAdd(from, 1), k - 1))]
  <2>1. n - 1 \in Nat /\ n - 1 <= Size
    BY RingBounds
  <2> QED BY <1>1, <2>1, StretchType
<1> HIDE DEF S, a, b
<1>4. a # <<>> /\ Head(a) = ring[Slot(from)]
  BY <1>1, <1>2
<1>5. Tail(a) \in Seq(S) /\ Len(Tail(a)) = n - 1 /\ \A k \in 1 .. (n - 1) : Tail(a)[k] = a[k + 1]
  BY <1>2
<1>6. ASSUME NEW k \in 1 .. (n - 1) PROVE Tail(a)[k] = b[k]
  <2>1. 1 + (k - 1) = k /\ k - 1 \in Nat /\ k < Modulus /\ k + 1 - 1 = k /\ k + 1 \in 1 .. n
    BY RingBounds
  <2>2. WrapAdd(WrapAdd(from, 1), k - 1) = WrapAdd(from, k)
    BY <2>1, WrapAddTwice
  <2>3. Tail(a)[k] = a[k + 1]
    BY <1>5
  <2>4. a[k + 1] = ring[Slot(WrapAdd(from, k + 1 - 1))]
    BY <1>2, <2>1
  <2>5. b[k] = ring[Slot(WrapAdd(WrapAdd(from, 1), k - 1))]
    BY <1>3
  <2> QED BY <2>1, <2>2, <2>3, <2>4, <2>5
<1>7. Tail(a) = b
  BY <1>3, <1>5, <1>6, SameSequence
<1> QED BY <1>4, <1>7 DEF a, b

\* The entry after a stretch extends it.
LEMMA StretchAppend ==
  ASSUME NEW ring, NEW from \in Index, NEW n \in Nat, n < Size
  PROVE  Append(Stretch(ring, from, n), ring[Slot(WrapAdd(from, n))]) = Stretch(ring, from, n + 1)
<1> DEFINE S == SlotValues(ring)
           a == Stretch(ring, from, n)
           b == Stretch(ring, from, n + 1)
           e == ring[Slot(WrapAdd(from, n))]
<1>0. n <= Size /\ n + 1 \in Nat /\ n + 1 <= Size
  BY RingBounds
<1>1. /\ a \in Seq(S) /\ Len(a) = n
      /\ \A k \in 1 .. n : a[k] = ring[Slot(WrapAdd(from, k - 1))]
  BY <1>0, StretchType
<1>2. /\ b \in Seq(S) /\ Len(b) = n + 1
      /\ \A k \in 1 .. (n + 1) : b[k] = ring[Slot(WrapAdd(from, k - 1))]
  BY <1>0, StretchType
<1>3. e = b[n + 1] /\ e \in S
  BY <1>2
<1> HIDE DEF S, a, b, e
<1>4. Append(a, e) \in Seq(S) /\ Len(Append(a, e)) = n + 1
  BY <1>1, <1>3
<1>5. \A k \in 1 .. (n + 1) : Append(a, e)[k] = b[k]
  BY <1>1, <1>2, <1>3
<1>6. Append(a, e) = b
  BY <1>2, <1>4, <1>5, SameSequence
<1> QED BY <1>6 DEF a, b, e

\* A stretch depends on the slots it spans only.
LEMMA StretchUntouched ==
  ASSUME NEW old, NEW new, NEW from \in Index, NEW n \in Nat,
         \A k \in 0 .. (n - 1) : new[Slot(WrapAdd(from, k))] = old[Slot(WrapAdd(from, k))]
  PROVE  Stretch(new, from, n) = Stretch(old, from, n)
<1>1. \A k \in 1 .. n : new[Slot(WrapAdd(from, k - 1))] = old[Slot(WrapAdd(from, k - 1))]
  <2> SUFFICES ASSUME NEW k \in 1 .. n
               PROVE  new[Slot(WrapAdd(from, k - 1))] = old[Slot(WrapAdd(from, k - 1))]
    OBVIOUS
  <2>1. k - 1 \in 0 .. (n - 1)
    OBVIOUS
  <2> QED BY <2>1
<1> QED BY <1>1 DEF Stretch

\* A write to the j-th slot behind `from` spares the stretches that end before it,
\* as long as it is less than one turn of the ring away.
LEMMA WriteBehindStretch ==
  ASSUME NEW old, NEW new, NEW from \in Index, NEW n \in Nat, NEW j \in SlotId, n <= j,
         \A x \in SlotId : x # Slot(WrapAdd(from, j)) => new[x] = old[x]
  PROVE  Stretch(new, from, n) = Stretch(old, from, n)
<1>1. ASSUME NEW k \in 0 .. (n - 1)
      PROVE  new[Slot(WrapAdd(from, k))] = old[Slot(WrapAdd(from, k))]
  <2>1. k \in SlotId /\ k # j /\ k \in Index
    BY RingBounds DEF SlotId, Index
  <2>2. Slot(WrapAdd(from, k)) # Slot(WrapAdd(from, j))
    BY <2>1, WindowSlotsDiffer
  <2>3. Slot(WrapAdd(from, k)) \in SlotId
    BY <2>1, WrapType, SlotType DEF Index
  <2> QED BY <2>2, <2>3
<1> QED BY <1>1, StretchUntouched

=============================================================================
