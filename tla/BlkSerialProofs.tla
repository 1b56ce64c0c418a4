-------------------------- MODULE BlkSerialProofs --------------------------
(***************************************************************************)
(* Proofs about the request path when one vCPU at a time is inside the       *)
(* device: where every request is, for any queue size, any width of the      *)
(* indices, any requests and any set of failing memory accesses.             *)
(***************************************************************************)
EXTENDS BlkDeviceProofs, FiniteSetTheorems

----------------------------------------------------------------------------
(* Ring arithmetic: the slots of a ring are its free-running indices modulo  *)
(* its size, which divides 2^16.                                             *)

LEMMA SizeFacts ==
  /\ MaxQueueSize \in Nat /\ MaxQueueSize > 0
  /\ IdxMod \in Nat /\ MaxQueueSize < IdxMod /\ IdxMod % MaxQueueSize = 0
  BY SizeAssumption

\* The remainder is the only number below the divisor that differs by a multiple.
LEMMA RemainderUnique ==
  ASSUME NEW n \in Nat, n > 0, NEW r \in 0 .. n - 1, NEW k \in Nat
  PROVE  (k * n + r) % n = r
  OBVIOUS

LEMMA RemainderTwice ==
  ASSUME NEW n \in Nat
  PROVE  (n % MaxQueueSize) % MaxQueueSize = n % MaxQueueSize
  <1> DEFINE r == n % MaxQueueSize
  <1>1. r \in 0 .. MaxQueueSize - 1
    BY SizeFacts, RemainderRange
  <1> HIDE DEF r
  <1>2. r % MaxQueueSize = r
    BY <1>1, SizeFacts
  <1> QED BY <1>2 DEF r

LEMMA DivMod ==
  ASSUME NEW n \in Nat, n > 0, NEW a \in Nat
  PROVE  /\ a \div n \in Nat
         /\ a = (a \div n) * n + (a % n)
  OBVIOUS

\* A multiple of the size does not move a slot.
LEMMA SlotShift ==
  ASSUME NEW x \in Nat
  PROVE  (x + IdxMod) % MaxQueueSize = x % MaxQueueSize
  <1> DEFINE M == MaxQueueSize
             q == x \div M
             r == x % M
             k == IdxMod \div M
  <1>1. q \in Nat /\ x = q * M + r /\ r \in 0 .. M - 1
    BY SizeFacts, DivMod, RemainderRange
  <1>2. k \in Nat /\ IdxMod = k * M + (IdxMod % M)
    BY SizeFacts, DivMod
  <1> HIDE DEF q, r, k
  <1>3. (q + k) * M = q * M + k * M
    BY <1>1, <1>2, SizeFacts
  <1>4. x + IdxMod = (q + k) * M + r
    BY <1>1, <1>2, <1>3, SizeFacts
  <1>5. q + k \in Nat
    BY <1>1, <1>2
  <1>6. ((q + k) * M + r) % M = r
    BY <1>1, <1>5, SizeFacts, RemainderUnique
  <1> QED BY <1>4, <1>6 DEF r

\* Slots less than a lap apart are different.
LEMMA SlotsDiffer ==
  ASSUME NEW x \in Nat, NEW y \in Nat, x < y, y - x < MaxQueueSize
  PROVE  x % MaxQueueSize # y % MaxQueueSize
  <1> DEFINE M == MaxQueueSize
             p == x \div M
             q == y \div M
  <1>1. p \in Nat /\ x = p * M + (x % M)
    BY SizeFacts, DivMod
  <1>2. q \in Nat /\ y = q * M + (y % M)
    BY SizeFacts, DivMod
  <1>3. x % M \in Nat /\ y % M \in Nat
    BY SizeFacts, RemainderRange
  <1> HIDE DEF p, q
  <1>4. SUFFICES ASSUME x % M = y % M PROVE FALSE
    OBVIOUS
  <1>5. y - x = q * M - p * M
    BY <1>1, <1>2, <1>3, <1>4, SizeFacts
  <1>6. q * M - p * M = (q - p) * M
    BY <1>1, <1>2, SizeFacts
  <1>7. q - p >= 1
    BY <1>1, <1>2, <1>5, <1>6, SizeFacts
  <1>8. (q - p) * M >= M
    BY <1>1, <1>2, <1>7, SizeFacts
  <1> QED BY <1>1, <1>2, <1>5, <1>6, <1>8, SizeFacts

LEMMA IdxFacts ==
  ASSUME NEW i \in Idx
  PROVE  i \in Nat /\ i < IdxMod
  BY SizeFacts DEF Idx

\* Entries between two indices, as a number.
LEMMA DistCases ==
  ASSUME NEW i \in Idx, NEW j \in Idx
  PROVE  /\ Dist(i, j) = IF i <= j THEN j - i ELSE j + IdxMod - i
         /\ Dist(i, j) \in 0 .. IdxMod - 1
         /\ Dist(i, j) = 0 <=> i = j
  <1>1. i \in Nat /\ i < IdxMod /\ j \in Nat /\ j < IdxMod
    BY IdxFacts
  <1>2. CASE i <= j
    <2>1. j - i \in 0 .. IdxMod - 1 /\ j + IdxMod - i = 1 * IdxMod + (j - i)
      BY <1>1, <1>2, SizeFacts
    <2>2. Dist(i, j) = j - i
      BY <2>1, RemainderUnique, SizeFacts DEF Dist
    <2> QED BY <1>1, <1>2, <2>1, <2>2
  <1>3. CASE ~(i <= j)
    <2>1. j + IdxMod - i \in 0 .. IdxMod - 1 /\ j + IdxMod - i = 0 * IdxMod + (j + IdxMod - i)
      BY <1>1, <1>3, SizeFacts
    <2>2. Dist(i, j) = j + IdxMod - i
      BY <2>1, RemainderUnique, SizeFacts DEF Dist
    <2> QED BY <1>1, <1>3, <2>1, <2>2, SizeFacts
  <1> QED BY <1>2, <1>3

LEMMA WrapIncCases ==
  ASSUME NEW i \in Idx
  PROVE  /\ WrapInc(i) = IF i + 1 < IdxMod THEN i + 1 ELSE 0
         /\ WrapInc(i) \in Idx
  <1>1. i \in Nat /\ i < IdxMod
    BY IdxFacts
  <1>2. CASE i + 1 < IdxMod
    BY <1>1, <1>2, SizeFacts DEF WrapInc, Idx
  <1>3. CASE ~(i + 1 < IdxMod)
    <2>1. i + 1 = IdxMod
      BY <1>1, <1>3, SizeFacts
    <2> QED BY <2>1, SizeFacts DEF WrapInc, Idx
  <1> QED BY <1>2, <1>3

\* The far end of a window advances, as long as it does not lap the near end ...
LEMMA DistGrows ==
  ASSUME NEW i \in Idx, NEW j \in Idx, Dist(i, j) < IdxMod - 1
  PROVE  Dist(i, WrapInc(j)) = Dist(i, j) + 1
  <1>1. i \in Nat /\ i < IdxMod /\ j \in Nat /\ j < IdxMod
    BY IdxFacts
  <1>2. WrapInc(j) \in Idx /\ WrapInc(j) = IF j + 1 < IdxMod THEN j + 1 ELSE 0
    BY WrapIncCases
  <1>3. /\ Dist(i, j) = IF i <= j THEN j - i ELSE j + IdxMod - i
        /\ Dist(i, WrapInc(j)) = IF i <= WrapInc(j) THEN WrapInc(j) - i
                                 ELSE WrapInc(j) + IdxMod - i
    BY <1>2, DistCases
  <1> QED BY <1>1, <1>2, <1>3, SizeFacts

\* ... and so does the near end, until it reaches the far one.
LEMMA DistShrinks ==
  ASSUME NEW i \in Idx, NEW j \in Idx, i # j
  PROVE  Dist(WrapInc(i), j) = Dist(i, j) - 1
  <1>1. i \in Nat /\ i < IdxMod /\ j \in Nat /\ j < IdxMod
    BY IdxFacts
  <1>2. WrapInc(i) \in Idx /\ WrapInc(i) = IF i + 1 < IdxMod THEN i + 1 ELSE 0
    BY WrapIncCases
  <1>3. /\ Dist(i, j) = IF i <= j THEN j - i ELSE j + IdxMod - i
        /\ Dist(WrapInc(i), j) = IF WrapInc(i) <= j THEN j - WrapInc(i)
                                 ELSE j + IdxMod - WrapInc(i)
    BY <1>2, DistCases
  <1> QED BY <1>1, <1>2, <1>3, SizeFacts

\* The n-th slot of a window whose near end has advanced was the next one before.
LEMMA SlotAfter ==
  ASSUME NEW i \in Idx, NEW n \in Nat
  PROVE  (WrapInc(i) + n) % MaxQueueSize = (i + (n + 1)) % MaxQueueSize
  <1>1. i \in Nat /\ i < IdxMod /\ WrapInc(i) = IF i + 1 < IdxMod THEN i + 1 ELSE 0
    BY IdxFacts, WrapIncCases
  <1>2. CASE i + 1 < IdxMod
    <2>1. WrapInc(i) + n = i + (n + 1)
      BY <1>1, <1>2
    <2> QED BY <2>1
  <1>3. CASE ~(i + 1 < IdxMod)
    <2>1. WrapInc(i) + n = n /\ i + (n + 1) = n + IdxMod
      BY <1>1, <1>3, SizeFacts
    <2> QED BY <2>1, SlotShift
  <1> QED BY <1>2, <1>3

\* Behind the last slot of a window lies the slot of its far end.
LEMMA SlotAtEnd ==
  ASSUME NEW i \in Idx, NEW j \in Idx
  PROVE  (i + Dist(i, j)) % MaxQueueSize = j % MaxQueueSize
  <1>1. i \in Nat /\ i < IdxMod /\ j \in Nat /\ j < IdxMod
    BY IdxFacts
  <1>2. i + Dist(i, j) = j \/ i + Dist(i, j) = j + IdxMod
    BY <1>1, DistCases, SizeFacts
  <1> QED BY <1>1, <1>2, SlotShift

LEMMA SlotType ==
  ASSUME NEW n \in Nat
  PROVE  n % MaxQueueSize \in Slots
  BY SizeFacts, RemainderRange DEF Slots

----------------------------------------------------------------------------
(* Windows of a ring. *)

\* No two entries of the window name the same head.
NoRepeat(ring, i, j) ==
  \A m, n \in 0 .. Dist(i, j) - 1 :
    ring[(i + m) % MaxQueueSize] = ring[(i + n) % MaxQueueSize] => m = n

LEMMA WindowType ==
  ASSUME NEW ring \in [Slots -> Slots], NEW i \in Idx, NEW j \in Idx
  PROVE  RingWindow(ring, i, j) \subseteq Slots
  <1>1. \A n \in 0 .. Dist(i, j) - 1 : i + n \in Nat
    BY IdxFacts, DistCases
  <1> QED BY <1>1, SlotType DEF RingWindow

LEMMA EmptyWindow ==
  ASSUME NEW ring, NEW i \in Idx
  PROVE  RingWindow(ring, i, i) = {} /\ NoRepeat(ring, i, i) /\ Dist(i, i) = 0
  <1>1. Dist(i, i) = 0
    BY DistCases
  <1> QED BY <1>1 DEF RingWindow, NoRepeat

\* A shorter window from the same place is part of the longer one.
LEMMA WindowPrefix ==
  ASSUME NEW ring, NEW i \in Idx, NEW j \in Idx, NEW k \in Idx, Dist(i, j) <= Dist(i, k)
  PROVE  /\ RingWindow(ring, i, j) \subseteq RingWindow(ring, i, k)
         /\ NoRepeat(ring, i, k) => NoRepeat(ring, i, j)
  <1>1. \A n \in 0 .. Dist(i, j) - 1 : n \in 0 .. Dist(i, k) - 1
    BY DistCases, SizeFacts
  <1>2. RingWindow(ring, i, j) \subseteq RingWindow(ring, i, k)
    BY <1>1 DEF RingWindow
  <1>3. NoRepeat(ring, i, k) => NoRepeat(ring, i, j)
    BY <1>1 DEF NoRepeat
  <1> QED BY <1>2, <1>3

\* A window without repetition has as many members as entries.
LEMMA WindowSize ==
  ASSUME NEW ring \in [Slots -> Slots], NEW i \in Idx, NEW j \in Idx, NoRepeat(ring, i, j)
  PROVE  /\ IsFiniteSet(RingWindow(ring, i, j))
         /\ Cardinality(RingWindow(ring, i, j)) = Dist(i, j)
  <1> DEFINE P == 0 .. Dist(i, j) - 1
             W == RingWindow(ring, i, j)
             f == [n \in P |-> ring[(i + n) % MaxQueueSize]]
  <1>1. f \in Bijection(P, W)
    BY DEF NoRepeat, RingWindow, Bijection, Injection, Surjection, IsInjective
  <1>2. IsFiniteSet(P) /\ Cardinality(P) = Dist(i, j)
    <2>1. Dist(i, j) \in Nat
      BY DistCases
    <2>2. Dist(i, j) - 1 \in Int /\ 0 \in Int
      BY <2>1
    <2> QED BY <2>1, <2>2, FS_Interval
  <1> HIDE DEF P, W
  <1>3. ExistsBijection(P, W)
    BY <1>1 DEF ExistsBijection
  <1>4. IsFiniteSet(W) /\ Cardinality(W) = Cardinality(P)
    BY <1>2, <1>3, FS_Bijection
  <1> QED BY <1>2, <1>4 DEF W

LEMMA SlotsCount == IsFiniteSet(Slots) /\ Cardinality(Slots) = MaxQueueSize
  <1>1. 0 \in Int /\ MaxQueueSize - 1 \in Int /\ ~(0 > MaxQueueSize - 1)
    BY SizeFacts
  <1> QED BY <1>1, SizeFacts, FS_Interval DEF Slots

\* There is room for an entry whose head is not in the window.
LEMMA WindowRoom ==
  ASSUME NEW ring \in [Slots -> Slots], NEW i \in Idx, NEW j \in Idx, NoRepeat(ring, i, j),
         NEW h \in Slots, h \notin RingWindow(ring, i, j)
  PROVE  Dist(i, j) < MaxQueueSize
  <1> DEFINE W == RingWindow(ring, i, j)
  <1>1. W \subseteq Slots \ {h}
    BY WindowType
  <1>2. IsFiniteSet(Slots \ {h}) /\ Cardinality(Slots \ {h}) = MaxQueueSize - 1
    BY SlotsCount, FS_RemoveElement
  <1>3. Cardinality(W) <= MaxQueueSize - 1
    BY <1>1, <1>2, FS_Subset
  <1> QED BY <1>3, WindowSize, SizeFacts, DistCases

\* Head h written where index j points.
Put(ring, j, h) == [ring EXCEPT ![j % MaxQueueSize] = h]

LEMMA PutType ==
  ASSUME NEW ring \in [Slots -> Slots], NEW j \in Idx, NEW h \in Slots
  PROVE  Put(ring, j, h) \in [Slots -> Slots] /\ Put(ring, j, h)[j % MaxQueueSize] = h
  <1>1. j % MaxQueueSize \in Slots
    BY SlotType, IdxFacts
  <1> QED BY <1>1 DEF Put

\* An element written behind the window is not one of its entries ...
LEMMA EntriesStay ==
  ASSUME NEW ring \in [Slots -> Slots], NEW i \in Idx, NEW j \in Idx, NEW h \in Slots,
         Dist(i, j) < MaxQueueSize
  PROVE  \A n \in 0 .. Dist(i, j) - 1 :
           Put(ring, j, h)[(i + n) % MaxQueueSize] = ring[(i + n) % MaxQueueSize]
  <1> DEFINE s(n) == (i + n) % MaxQueueSize
  <1>1. Dist(i, j) \in Nat /\ i \in Nat /\ j \in Nat
    BY DistCases, IdxFacts
  <1>2. \A n \in 0 .. Dist(i, j) - 1 : s(n) \in Slots /\ s(n) # j % MaxQueueSize
    <2> TAKE n \in 0 .. Dist(i, j) - 1
    <2>1. i + n \in Nat /\ i + Dist(i, j) \in Nat /\ i + n < i + Dist(i, j)
          /\ (i + Dist(i, j)) - (i + n) < MaxQueueSize
      BY <1>1, SizeFacts
    <2>2. s(n) # (i + Dist(i, j)) % MaxQueueSize
      BY <2>1, SlotsDiffer
    <2> QED BY <2>1, <2>2, SlotAtEnd, SlotType
  <1> HIDE DEF s
  <1>3. \A n \in 0 .. Dist(i, j) - 1 : Put(ring, j, h)[s(n)] = ring[s(n)]
    BY <1>2 DEF Put
  <1> QED BY <1>3 DEF s

\* ... so it does not change the window, nor a shorter one from the same place.
LEMMA WindowStays ==
  ASSUME NEW ring \in [Slots -> Slots], NEW i \in Idx, NEW j \in Idx, NEW h \in Slots,
         Dist(i, j) < MaxQueueSize
  PROVE  /\ RingWindow(Put(ring, j, h), i, j) = RingWindow(ring, i, j)
         /\ NoRepeat(ring, i, j) => NoRepeat(Put(ring, j, h), i, j)
  <1>1. \A n \in 0 .. Dist(i, j) - 1 :
          Put(ring, j, h)[(i + n) % MaxQueueSize] = ring[(i + n) % MaxQueueSize]
    BY EntriesStay
  <1>2. RingWindow(Put(ring, j, h), i, j) = RingWindow(ring, i, j)
    BY <1>1 DEF RingWindow
  <1>3. NoRepeat(ring, i, j) => NoRepeat(Put(ring, j, h), i, j)
    BY <1>1 DEF NoRepeat
  <1> QED BY <1>2, <1>3

LEMMA PrefixStays ==
  ASSUME NEW ring \in [Slots -> Slots], NEW i \in Idx, NEW j \in Idx, NEW k \in Idx,
         NEW h \in Slots, Dist(i, k) <= Dist(i, j), Dist(i, j) < MaxQueueSize
  PROVE  RingWindow(Put(ring, j, h), i, k) = RingWindow(ring, i, k)
  <1>1. \A n \in 0 .. Dist(i, j) - 1 :
          Put(ring, j, h)[(i + n) % MaxQueueSize] = ring[(i + n) % MaxQueueSize]
    BY EntriesStay
  <1>2. \A n \in 0 .. Dist(i, k) - 1 : n \in 0 .. Dist(i, j) - 1
    BY DistCases, SizeFacts
  <1> QED BY <1>1, <1>2 DEF RingWindow

\* When the far end advances the window takes in the element behind it.
LEMMA WindowGrows ==
  ASSUME NEW ring \in [Slots -> Slots], NEW i \in Idx, NEW j \in Idx,
         Dist(i, j) < MaxQueueSize
  PROVE  LET h == ring[j % MaxQueueSize]
         IN  /\ Dist(i, WrapInc(j)) = Dist(i, j) + 1
             /\ RingWindow(ring, i, WrapInc(j)) = RingWindow(ring, i, j) \cup {h}
             /\ NoRepeat(ring, i, j) /\ h \notin RingWindow(ring, i, j)
                  => NoRepeat(ring, i, WrapInc(j))
  <1> DEFINE h == ring[j % MaxQueueSize]
             d == Dist(i, j)
             e(n) == ring[(i + n) % MaxQueueSize]
  <1>1. d \in Nat /\ Dist(i, WrapInc(j)) = d + 1
    BY DistCases, DistGrows, SizeFacts
  <1>2. e(d) = h
    BY SlotAtEnd
  <1>w. RingWindow(ring, i, j) = {e(n) : n \in 0 .. d - 1}
    BY DEF RingWindow
  <1>x. RingWindow(ring, i, WrapInc(j)) = {e(n) : n \in 0 .. d}
    <2>1. (d + 1) - 1 = d
      BY <1>1
    <2> QED BY <1>1, <2>1 DEF RingWindow
  <1>r. NoRepeat(ring, i, j) <=> \A m, n \in 0 .. d - 1 : e(m) = e(n) => m = n
    BY DEF NoRepeat
  <1>s. NoRepeat(ring, i, WrapInc(j)) <=> \A m, n \in 0 .. d : e(m) = e(n) => m = n
    <2>1. (d + 1) - 1 = d
      BY <1>1
    <2> QED BY <1>1, <2>1 DEF NoRepeat
  <1>3. 0 .. d = 0 .. d - 1 \cup {d}
    BY <1>1
  <1> HIDE DEF h, d, e
  <1>4. RingWindow(ring, i, WrapInc(j)) = RingWindow(ring, i, j) \cup {h}
    BY <1>2, <1>w, <1>x, <1>3
  <1>5. ASSUME NoRepeat(ring, i, j), h \notin RingWindow(ring, i, j)
        PROVE  NoRepeat(ring, i, WrapInc(j))
    BY <1>2, <1>w, <1>r, <1>s, <1>3, <1>5
  <1> QED BY <1>1, <1>4, <1>5 DEF h, d

\* When the near end advances the window loses its first element.
LEMMA WindowShrinks ==
  ASSUME NEW ring \in [Slots -> Slots], NEW i \in Idx, NEW j \in Idx, i # j
  PROVE  LET h == ring[i % MaxQueueSize]
             W == RingWindow(ring, WrapInc(i), j)
         IN  /\ Dist(WrapInc(i), j) = Dist(i, j) - 1
             /\ RingWindow(ring, i, j) = W \cup {h}
             /\ NoRepeat(ring, i, j) => NoRepeat(ring, WrapInc(i), j) /\ h \notin W
  <1> DEFINE h == ring[i % MaxQueueSize]
             d == Dist(i, j)
             e(n) == ring[(i + n) % MaxQueueSize]
  <1>1. d \in Nat /\ d > 0 /\ Dist(WrapInc(i), j) = d - 1 /\ i \in Nat
    BY DistCases, DistShrinks, IdxFacts
  <1>2. e(0) = h
    BY <1>1
  <1>3. \A n \in Nat : ring[(WrapInc(i) + n) % MaxQueueSize] = e(n + 1)
    BY SlotAfter
  <1>w. RingWindow(ring, i, j) = {e(n) : n \in 0 .. d - 1}
    BY DEF RingWindow
  <1>x. RingWindow(ring, WrapInc(i), j) = {e(n + 1) : n \in 0 .. d - 2}
    <2>1. (d - 1) - 1 = d - 2 /\ \A n \in 0 .. d - 2 : n \in Nat
      BY <1>1
    <2> QED BY <1>1, <1>3, <2>1 DEF RingWindow
  <1>r. NoRepeat(ring, i, j) <=> \A m, n \in 0 .. d - 1 : e(m) = e(n) => m = n
    BY DEF NoRepeat
  <1>s. NoRepeat(ring, WrapInc(i), j)
          <=> \A m, n \in 0 .. d - 2 : e(m + 1) = e(n + 1) => m = n
    <2>1. (d - 1) - 1 = d - 2 /\ \A n \in 0 .. d - 2 : n \in Nat
      BY <1>1
    <2> QED BY <1>1, <1>3, <2>1 DEF NoRepeat
  <1> HIDE DEF h, d, e
  <1>4. \A n \in 0 .. d - 2 : n + 1 \in 0 .. d - 1 /\ n + 1 # 0
    BY <1>1
  <1>5. \A n \in 0 .. d - 1 : n = 0 \/ (n - 1 \in 0 .. d - 2 /\ (n - 1) + 1 = n)
    BY <1>1
  <1>6. RingWindow(ring, i, j) = RingWindow(ring, WrapInc(i), j) \cup {h}
    <2>1. {e(n) : n \in 0 .. d - 1} \subseteq {e(n + 1) : n \in 0 .. d - 2} \cup {h}
      BY <1>2, <1>5
    <2>2. {e(n + 1) : n \in 0 .. d - 2} \subseteq {e(n) : n \in 0 .. d - 1}
      BY <1>4
    <2>3. h \in {e(n) : n \in 0 .. d - 1}
      BY <1>1, <1>2
    <2> QED BY <1>w, <1>x, <2>1, <2>2, <2>3
  <1>7. ASSUME NoRepeat(ring, i, j)
        PROVE  NoRepeat(ring, WrapInc(i), j) /\ h \notin RingWindow(ring, WrapInc(i), j)
    <2>1. \A m, n \in 0 .. d - 1 : e(m) = e(n) => m = n
      BY <1>r, <1>7
    <2>2. \A m, n \in 0 .. d - 2 : e(m + 1) = e(n + 1) => m = n
      <3> TAKE m, n \in 0 .. d - 2
      <3>1. e(m + 1) = e(n + 1) => m + 1 = n + 1
        BY <1>4, <2>1
      <3> QED BY <3>1
    <2>3. \A n \in 0 .. d - 2 : e(n + 1) # e(0)
      <3>1. 0 \in 0 .. d - 1
        BY <1>1
      <3> QED BY <1>4, <2>1, <3>1
    <2>4. h \notin {e(n + 1) : n \in 0 .. d - 2}
      BY <1>2, <2>3
    <2> QED BY <1>s, <1>x, <2>2, <2>4
  <1> QED BY <1>1, <1>6, <1>7 DEF h, d

----------------------------------------------------------------------------
(* The failed requests a handler keeps. *)

LEMMA ErrsEmpty == ToSet(<<>>) = {} /\ IsInjective(<<>>)
  BY DEF ToSet, IsInjective

LEMMA ErrsAppend ==
  ASSUME NEW s \in Seq(Slots), NEW h \in Slots
  PROVE  /\ Append(s, h) \in Seq(Slots)
         /\ ToSet(Append(s, h)) = ToSet(s) \cup {h}
         /\ IsInjective(s) /\ h \notin ToSet(s) => IsInjective(Append(s, h))
  <1>1. /\ Len(s) \in Nat /\ DOMAIN s = 1 .. Len(s)
        /\ DOMAIN Append(s, h) = 1 .. Len(s) + 1
        /\ \A n \in 1 .. Len(s) : Append(s, h)[n] = s[n]
        /\ Append(s, h)[Len(s) + 1] = h
    OBVIOUS
  <1>2. 1 .. Len(s) + 1 = 1 .. Len(s) \cup {Len(s) + 1}
    BY <1>1
  <1>3. ToSet(Append(s, h)) = ToSet(s) \cup {h}
    BY <1>1, <1>2 DEF ToSet
  <1>4. IsInjective(s) /\ h \notin ToSet(s) => IsInjective(Append(s, h))
    BY <1>1, <1>2 DEF ToSet, IsInjective
  <1> QED BY <1>3, <1>4

LEMMA ErrsTail ==
  ASSUME NEW s \in Seq(Slots), s # <<>>
  PROVE  /\ Tail(s) \in Seq(Slots) /\ Head(s) \in Slots
         /\ ToSet(s) = ToSet(Tail(s)) \cup {Head(s)}
         /\ IsInjective(s) => IsInjective(Tail(s)) /\ Head(s) \notin ToSet(Tail(s))
  <1>1. /\ Len(s) \in Nat /\ Len(s) > 0 /\ DOMAIN s = 1 .. Len(s)
        /\ DOMAIN Tail(s) = 1 .. Len(s) - 1
        /\ \A n \in 1 .. Len(s) - 1 : Tail(s)[n] = s[n + 1]
        /\ Head(s) = s[1] /\ Head(s) \in Slots /\ Tail(s) \in Seq(Slots)
    OBVIOUS
  <1>2. \A n \in 1 .. Len(s) : n = 1 \/ (n - 1 \in 1 .. Len(s) - 1 /\ (n - 1) + 1 = n)
    BY <1>1
  <1>3. \A n \in 1 .. Len(s) - 1 : n + 1 \in 1 .. Len(s) /\ n + 1 # 1
    BY <1>1
  <1>4. ToSet(s) = ToSet(Tail(s)) \cup {Head(s)}
    <2>1. ToSet(s) \subseteq ToSet(Tail(s)) \cup {Head(s)}
      <3>1. \A n \in 1 .. Len(s) :
              s[n] = Head(s) \/ (n - 1 \in 1 .. Len(s) - 1 /\ s[n] = Tail(s)[n - 1])
        BY <1>1, <1>2
      <3>2. \A n \in 1 .. Len(s) : s[n] \in {Head(s)} \cup ToSet(Tail(s))
        BY <1>1, <3>1 DEF ToSet
      <3> QED BY <1>1, <3>2 DEF ToSet
    <2>2. ToSet(Tail(s)) \cup {Head(s)} \subseteq ToSet(s)
      BY <1>1, <1>3 DEF ToSet
    <2> QED BY <2>1, <2>2
  <1>5. ASSUME IsInjective(s)
        PROVE  IsInjective(Tail(s)) /\ Head(s) \notin ToSet(Tail(s))
    <2>1. \A m, n \in 1 .. Len(s) : s[m] = s[n] => m = n
      BY <1>1, <1>5 DEF IsInjective
    <2>2. \A m, n \in 1 .. Len(s) - 1 : Tail(s)[m] = Tail(s)[n] => m = n
      <3> TAKE m, n \in 1 .. Len(s) - 1
      <3>1. Tail(s)[m] = Tail(s)[n] => m + 1 = n + 1
        BY <1>1, <1>3, <2>1
      <3> QED BY <1>1, <3>1
    <2>3. \A n \in 1 .. Len(s) - 1 : Tail(s)[n] # Head(s)
      BY <1>1, <1>3, <2>1
    <2> QED BY <1>1, <2>2, <2>3 DEF IsInjective, ToSet
  <1> QED BY <1>1, <1>4, <1>5

LEMMA ErrsSize ==
  ASSUME NEW s \in Seq(Slots), IsInjective(s)
  PROVE  /\ ToSet(s) \subseteq Slots
         /\ IsFiniteSet(ToSet(s)) /\ Cardinality(ToSet(s)) = Len(s)
  <1>1. Len(s) \in Nat /\ s \in [1 .. Len(s) -> Slots] /\ DOMAIN s = 1 .. Len(s)
    OBVIOUS
  <1>2. ToSet(s) \subseteq Slots
    BY <1>1 DEF ToSet
  <1>3. s \in Bijection(1 .. Len(s), ToSet(s))
    BY <1>1 DEF Bijection, Injection, Surjection, IsInjective, ToSet
  <1>4. ExistsBijection(1 .. Len(s), ToSet(s))
    BY <1>3 DEF ExistsBijection
  <1>5. IsFiniteSet(1 .. Len(s))
    BY <1>1, FS_Interval
  <1>6. IsFiniteSet(ToSet(s)) /\ Cardinality(ToSet(s)) = Len(s)
    BY <1>1, <1>4, <1>5, FS_Bijection, FS_CountingElements
  <1> QED BY <1>2, <1>6

----------------------------------------------------------------------------
(* Where requests are, as a relation between the two rings, the request in   *)
(* hand and the failed ones.  The lemmas are the ways a request can go.      *)

Apart(W, H, E, C) ==
  /\ W \cap H = {} /\ W \cap E = {} /\ W \cap C = {}
  /\ H \cap E = {} /\ H \cap C = {} /\ E \cap C = {}

\* Waiting from c to a on the available ring, in hand, failed, and counted from l to u on
\* the used ring: each of them once, in one place, and outstanding.
InPlace(avail, c, a, hand, errs, used, l, u, out) ==
  /\ Apart(RingWindow(avail, c, a), hand, ToSet(errs), RingWindow(used, l, u))
  /\ RingWindow(avail, c, a) \cup hand \cup ToSet(errs) \cup RingWindow(used, l, u)
       \subseteq out
  /\ NoRepeat(avail, c, a) /\ NoRepeat(used, l, u) /\ IsInjective(errs)

\* The handler takes the next entry.
LEMMA EntryTaken ==
  ASSUME NEW avail \in [Slots -> Slots], NEW c \in Idx, NEW a \in Idx, c # a,
         NEW errs, NEW used, NEW l, NEW u, NEW out,
         InPlace(avail, c, a, {}, errs, used, l, u, out)
  PROVE  /\ InPlace(avail, WrapInc(c), a, {avail[c % MaxQueueSize]}, errs, used, l, u, out)
         /\ RingWindow(avail, c, a)
              = RingWindow(avail, WrapInc(c), a) \cup {avail[c % MaxQueueSize]}
  BY WindowShrinks DEF InPlace, Apart

\* The request in hand is forgotten.
LEMMA HandDropped ==
  ASSUME NEW avail, NEW c, NEW a, NEW hand, NEW errs, NEW used, NEW l, NEW u, NEW out,
         InPlace(avail, c, a, hand, errs, used, l, u, out)
  PROVE  InPlace(avail, c, a, {}, errs, used, l, u, out)
  BY DEF InPlace, Apart

\* It is kept as failed.
LEMMA HandFailed ==
  ASSUME NEW avail, NEW c, NEW a, NEW h \in Slots, NEW errs \in Seq(Slots),
         NEW used, NEW l, NEW u, NEW out,
         InPlace(avail, c, a, {h}, errs, used, l, u, out)
  PROVE  /\ InPlace(avail, c, a, {}, Append(errs, h), used, l, u, out)
         /\ ToSet(Append(errs, h)) = ToSet(errs) \cup {h}
  BY ErrsAppend DEF InPlace, Apart

\* An element that names it is written behind the counted ones: there is room.
LEMMA ElementWritten ==
  ASSUME NEW avail, NEW c, NEW a, NEW hand, NEW errs, NEW used \in [Slots -> Slots],
         NEW l \in Idx, NEW u \in Idx, NEW out,
         InPlace(avail, c, a, hand, errs, used, l, u, out),
         NEW h \in Slots, h \in hand \cup ToSet(errs)
  PROVE  /\ InPlace(avail, c, a, hand, errs, Put(used, u, h), l, u, out)
         /\ RingWindow(Put(used, u, h), l, u) = RingWindow(used, l, u)
  <1>1. NoRepeat(used, l, u) /\ h \notin RingWindow(used, l, u)
    BY DEF InPlace, Apart
  <1>2. Dist(l, u) < MaxQueueSize
    BY <1>1, WindowRoom
  <1> DEFINE new == Put(used, u, h)
  <1>3. /\ RingWindow(new, l, u) = RingWindow(used, l, u)
        /\ NoRepeat(used, l, u) => NoRepeat(new, l, u)
    BY <1>2, WindowStays
  <1> QED BY <1>1, <1>3 DEF InPlace

\* The index passes that element: the request in hand is counted ...
LEMMA HandCounted ==
  ASSUME NEW avail, NEW c, NEW a, NEW h \in Slots, NEW errs, NEW used \in [Slots -> Slots],
         NEW l \in Idx, NEW u \in Idx, NEW out,
         InPlace(avail, c, a, {h}, errs, used, l, u, out), used[u % MaxQueueSize] = h
  PROVE  /\ InPlace(avail, c, a, {}, errs, used, l, WrapInc(u), out)
         /\ RingWindow(used, l, WrapInc(u)) = RingWindow(used, l, u) \cup {h}
         /\ Dist(l, WrapInc(u)) = Dist(l, u) + 1
  <1>1. NoRepeat(used, l, u) /\ h \notin RingWindow(used, l, u)
    BY DEF InPlace, Apart
  <1>2. Dist(l, u) < MaxQueueSize
    BY <1>1, WindowRoom
  <1> QED BY <1>1, <1>2, WindowGrows DEF InPlace, Apart

\* The failed requests without the first one.
Splits(errs, h, rest) ==
  ToSet(errs) = ToSet(rest) \cup {h} /\ IsInjective(rest) /\ h \notin ToSet(rest)

\* ... or the first of the failed ones is.
LEMMA ErrorCounted ==
  ASSUME NEW avail, NEW c, NEW a, NEW hand, NEW errs, NEW rest, NEW h \in Slots,
         Splits(errs, h, rest),
         NEW used \in [Slots -> Slots], NEW l \in Idx, NEW u \in Idx, NEW out,
         InPlace(avail, c, a, hand, errs, used, l, u, out),
         used[u % MaxQueueSize] = h
  PROVE  /\ InPlace(avail, c, a, hand, rest, used, l, WrapInc(u), out)
         /\ RingWindow(used, l, WrapInc(u)) = RingWindow(used, l, u) \cup {h}
         /\ Dist(l, WrapInc(u)) = Dist(l, u) + 1
  <1>1. NoRepeat(used, l, u) /\ h \notin RingWindow(used, l, u)
    BY DEF InPlace, Apart, Splits
  <1>2. Dist(l, u) < MaxQueueSize
    BY <1>1, WindowRoom
  <1>3. /\ RingWindow(used, l, WrapInc(u)) = RingWindow(used, l, u) \cup {h}
        /\ Dist(l, WrapInc(u)) = Dist(l, u) + 1
        /\ NoRepeat(used, l, WrapInc(u))
    BY <1>1, <1>2, WindowGrows
  <1>4. InPlace(avail, c, a, hand, rest, used, l, WrapInc(u), out)
    BY <1>3 DEF InPlace, Apart, Splits
  <1> QED BY <1>3, <1>4

LEMMA ErrorDropped ==
  ASSUME NEW avail, NEW c, NEW a, NEW hand, NEW errs \in Seq(Slots), errs # <<>>,
         NEW used, NEW l, NEW u, NEW out,
         InPlace(avail, c, a, hand, errs, used, l, u, out)
  PROVE  /\ InPlace(avail, c, a, hand, Tail(errs), used, l, u, out)
         /\ ToSet(errs) = ToSet(Tail(errs)) \cup {Head(errs)}
  <1>1. ToSet(errs) = ToSet(Tail(errs)) \cup {Head(errs)} /\ IsInjective(Tail(errs))
    BY ErrsTail DEF InPlace
  <1> QED BY <1>1 DEF InPlace, Apart

\* The driver posts a head it has not outstanding: the available ring has room.
LEMMA HeadPosted ==
  ASSUME NEW avail \in [Slots -> Slots], NEW c \in Idx, NEW a \in Idx,
         NEW hand, NEW errs, NEW used, NEW l, NEW u, NEW out, NEW h \in Slots, h \notin out,
         InPlace(avail, c, a, hand, errs, used, l, u, out)
  PROVE  /\ InPlace(Put(avail, a, h), c, WrapInc(a), hand, errs, used, l, u, out \cup {h})
         /\ RingWindow(Put(avail, a, h), c, WrapInc(a)) = RingWindow(avail, c, a) \cup {h}
         /\ Dist(c, WrapInc(a)) = Dist(c, a) + 1
  <1> DEFINE new == Put(avail, a, h)
  <1>1. NoRepeat(avail, c, a) /\ h \notin RingWindow(avail, c, a)
    BY DEF InPlace
  <1>2. Dist(c, a) < MaxQueueSize
    BY <1>1, WindowRoom
  <1>3. /\ new \in [Slots -> Slots] /\ RingWindow(new, c, a) = RingWindow(avail, c, a)
        /\ NoRepeat(avail, c, a) => NoRepeat(new, c, a)
    BY <1>2, WindowStays, PutType
  <1>4. new[a % MaxQueueSize] = h
    BY PutType
  <1> HIDE DEF new
  <1>5. /\ RingWindow(new, c, WrapInc(a)) = RingWindow(avail, c, a) \cup {h}
        /\ Dist(c, WrapInc(a)) = Dist(c, a) + 1
        /\ NoRepeat(new, c, WrapInc(a))
    <2>1. Dist(c, a) < MaxQueueSize /\ NoRepeat(new, c, a) /\ h \notin RingWindow(new, c, a)
      BY <1>1, <1>2, <1>3
    <2> QED BY <1>3, <1>4, <2>1, WindowGrows
  <1>6. InPlace(new, c, WrapInc(a), hand, errs, used, l, u, out \cup {h})
    BY <1>5 DEF InPlace, Apart
  <1> QED BY <1>5, <1>6 DEF new

\* The driver reaps the first of the counted ones.
LEMMA HeadReaped ==
  ASSUME NEW avail, NEW c, NEW a, NEW hand, NEW errs, NEW used \in [Slots -> Slots],
         NEW l \in Idx, NEW u \in Idx, l # u, NEW out,
         InPlace(avail, c, a, hand, errs, used, l, u, out)
  PROVE  LET h == used[l % MaxQueueSize]
         IN  /\ InPlace(avail, c, a, hand, errs, used, WrapInc(l), u, out \ {h})
             /\ RingWindow(used, l, u) = RingWindow(used, WrapInc(l), u) \cup {h}
             /\ h \notin RingWindow(used, WrapInc(l), u)
  BY WindowShrinks DEF InPlace, Apart

----------------------------------------------------------------------------
(* The invariant. *)

\* The queue of a block device is never given another size, so its rings are full size.
FullSize(q) ==
  /\ q.size = MaxQueueSize
  /\ \A r \in RingName : q.ring[r].size \in {0, MaxQueueSize}

\* What the driver's phase says of the addresses and of the indices it has cleared.
SetUpOK ==
  /\ drv \in {"avail", "used", "ready", "ok", "run"} => queue.addr["desc"] # NullAddr
  /\ drv \in {"used", "ready", "ok", "run"} => queue.addr["avail"] # NullAddr
  /\ drv \in SettingUp => queue.ring["used"].idx = 0
  /\ drv \in SettingUp \ {"init"} => availIdx = 0 /\ lastUsed = 0
  /\ drv # "run" => outstanding = {} /\ irqPhase = "wait"

\* Cursor and InHand, of a handler record and a queue.
CursorOf(t, q) ==
  CASE t.pc = "loop" -> t.cur
    [] t.pc \in InLoop \ {"loop"} -> WrapInc(t.cur)
    [] OTHER -> LastAvail(q)

HandOf(t) ==
  IF t.pc \in {"parse", "fail", "exec", "status", "used", "publish"} THEN {t.desc} ELSE {}

\* The copy has the queue's own last available index, because nobody else moves it; the
\* driver's index is not behind the one the handler has read; failed requests are kept
\* in the loop only; and the descriptors parsed are those of a head the driver cannot
\* use again yet.
Sees(t, q, avail, kind) ==
  /\ t.pc \in OnCopy => LastAvail(t.snap) = LastAvail(q)
  /\ t.pc \in InLoop => Dist(CursorOf(t, q), t.seen) <= Dist(CursorOf(t, q), avail)
  /\ t.pc \notin InLoop \cup {"errUsed", "errPublish"} => t.errs = <<>>
  /\ t.pc \in {"fail", "exec", "status", "used", "publish"} =>
       /\ t.req = kind[t.desc]
       /\ t.pc = "fail" <=> t.req \in {"bad", "nostatus"}

Placed(v) ==
  InPlace(availRing, CursorOf(thr[v], queue), availIdx, HandOf(thr[v]), thr[v].errs,
          usedRing, lastUsed, queue.ring["used"].idx, outstanding)

\* The driver's view of the used ring ends no later than the device's.
NotAhead == Dist(lastUsed, usedIdx) <= Dist(lastUsed, queue.ring["used"].idx)

SerialInv(v) ==
  /\ FullSize(queue) /\ FullSize(thr[v].snap)
  /\ SetUpOK
  /\ Sees(thr[v], queue, availIdx, chain)
  /\ drv = "run" => Placed(v) /\ NotAhead

LEMMA SomewhereIs ==
  ASSUME NEW v \in Vcpus
  PROVE  /\ Somewhere(v) =
              RingWindow(availRing, CursorOf(thr[v], queue), availIdx)
                \cup HandOf(thr[v]) \cup ToSet(thr[v].errs)
                \cup RingWindow(usedRing, lastUsed, queue.ring["used"].idx)
         /\ Somewhere(v)' =
              RingWindow(availRing', CursorOf(thr'[v], queue'), availIdx')
                \cup HandOf(thr'[v]) \cup ToSet(thr'[v].errs)
                \cup RingWindow(usedRing', lastUsed', queue'.ring["used"].idx)
  <1>1. Cursor(v) = CursorOf(thr[v], queue)
    BY DEF Cursor, CursorOf, InLoop, OnCopy
  <1>2. InHand(v) = HandOf(thr[v])
    BY DEF InHand, HandOf
  <1>3. Cursor(v)' = CursorOf(thr'[v], queue')
    BY DEF Cursor, CursorOf, InLoop, OnCopy
  <1>4. InHand(v)' = HandOf(thr'[v])
    BY DEF InHand, HandOf
  <1> QED BY <1>1, <1>2, <1>3, <1>4 DEF Somewhere, Waiting, Counted

LEMMA WaitingIs ==
  ASSUME NEW v \in Vcpus
  PROVE  /\ Waiting(v) = RingWindow(availRing, CursorOf(thr[v], queue), availIdx)
         /\ Waiting(v)' = RingWindow(availRing', CursorOf(thr'[v], queue'), availIdx')
  <1>1. Cursor(v) = CursorOf(thr[v], queue)
    BY DEF Cursor, CursorOf, InLoop, OnCopy
  <1>2. Cursor(v)' = CursorOf(thr'[v], queue')
    BY DEF Cursor, CursorOf, InLoop, OnCopy
  <1> QED BY <1>1, <1>2 DEF Waiting

\* Only the driver adds to the requests that wait, and the requests counted change only
\* where the used index moves and where the driver reaps.
Passed(v) ==
  drv = "run" /\ drv' = "run" =>
    /\ Waiting(v)' \subseteq Waiting(v) \cup (outstanding' \ outstanding)
    /\ Publish(v) \/ PublishError(v) \/ Reap \/ Counted' = Counted

LEMMA NonePassed ==
  ASSUME NEW v \in Vcpus, UNCHANGED <<availRing, availIdx>>,
         CursorOf(thr'[v], queue') = CursorOf(thr[v], queue),
         Publish(v) \/ PublishError(v) \/ Reap \/ Counted' = Counted
  PROVE  Passed(v)
  <1>1. Waiting(v)' = Waiting(v)
    BY WaitingIs
  <1> QED BY <1>1 DEF Passed

\* A step that moves neither a cursor nor a request.
LEMMA Unmoved ==
  ASSUME NEW v \in Vcpus,
         UNCHANGED <<availRing, availIdx, usedRing, usedIdx, lastUsed, outstanding>>,
         queue'.ring["used"].idx = queue.ring["used"].idx,
         CursorOf(thr'[v], queue') = CursorOf(thr[v], queue),
         HandOf(thr'[v]) = HandOf(thr[v]), thr'[v].errs = thr[v].errs
  PROVE  /\ Placed(v) => Placed(v)'
         /\ NotAhead => NotAhead'
         /\ Kept(v) /\ Passed(v)
  <1>1. Placed(v) => Placed(v)'
    BY DEF Placed
  <1>2. NotAhead => NotAhead'
    BY DEF NotAhead
  <1>3. Somewhere(v)' = Somewhere(v)
    BY SomewhereIs
  <1>4. Counted' = Counted
    BY DEF Counted
  <1>5. Passed(v)
    BY <1>4, NonePassed
  <1> QED BY <1>1, <1>2, <1>3, <1>5 DEF Kept

\* What a handler at work can rely on.
LEMMA AtWork ==
  ASSUME IInv, FreshInv, NEW v \in Vcpus, SerialInv(v),
         thr[v].pc \notin {"idle", "ready", "rstIrq", "rstQueue"}
  PROVE  /\ drv = "run" /\ Placed(v) /\ NotAhead
         /\ HasAddrs(queue)
         /\ \A r \in RingName : queue.ring[r] # NoRing /\ queue.ring[r].size = MaxQueueSize
         /\ UsedSlot(queue) = queue.ring["used"].idx % MaxQueueSize
         /\ thr[v].pc \in OnCopy =>
              AvailSlot(thr[v].snap, thr[v].cur) = thr[v].cur % MaxQueueSize
  <1>t. thr[v] \in Thread /\ queue \in Queue /\ RingsMatch(queue)
    BY DEF IInv, TypeOK
  <1>1. drv = "run" /\ Placed(v) /\ NotAhead
    BY DEF IInv, TypeOK, FreshInv, SettingUp, RingName, SerialInv, At
  <1>2. HasAddrs(queue)
    BY <1>1 DEF SerialInv, SetUpOK, IInv, PhasesOK, HasAddrs, RingName
  <1>3. \A r \in RingName : queue.ring[r] # NoRing /\ queue.ring[r].size = MaxQueueSize
    BY <1>t, <1>2, AddrsHaveRings DEF HasAddrs, RingsMatch, SerialInv, FullSize
  <1>4. ASSUME thr[v].pc \in OnCopy
        PROVE  AvailSlot(thr[v].snap, thr[v].cur) = thr[v].cur % MaxQueueSize
    <2>1. HasAddrs(thr[v].snap) /\ RingsMatch(thr[v].snap) /\ thr[v].snap \in Queue
      BY <1>4, <1>t DEF IInv, HandlersOK, Thread
    <2>2. thr[v].snap.size = MaxQueueSize /\ thr[v].snap.ring["avail"].size = MaxQueueSize
      BY <2>1 DEF HasAddrs, RingsMatch, SerialInv, FullSize, RingName
    <2>3. thr[v].cur \in Nat
      BY <1>t, IdxFacts DEF Thread
    <2> QED BY <2>2, <2>3, RemainderTwice DEF AvailSlot
  <1> QED BY <1>1, <1>2, <1>3, <1>4 DEF UsedSlot, RingName

----------------------------------------------------------------------------
(* The record of a handler after a step. *)

SameLocals(t, s) ==
  /\ t.snap = s.snap /\ t.seen = s.seen /\ t.cur = s.cur /\ t.desc = s.desc
  /\ t.req = s.req /\ t.res = s.res /\ t.errs = s.errs

LEMMA GotoFields ==
  ASSUME IInv, NEW v \in Vcpus, NEW pc \in PC, Goto(v, pc)
  PROVE  thr'[v].pc = pc /\ SameLocals(thr'[v], thr[v])
  <1>1. thr \in [Vcpus -> Thread] /\ thr[v] \in Thread
    BY DEF IInv, TypeOK
  <1> QED BY <1>1 DEF Goto, Become, SameLocals, Thread

LEMMA ReturnFields ==
  ASSUME IInv, NEW v \in Vcpus, Return(v)
  PROVE  thr'[v].pc = "idle" /\ thr'[v].snap = NewQueue /\ thr'[v].errs = <<>>
  <1>1. thr \in [Vcpus -> Thread]
    BY DEF IInv, TypeOK
  <1> QED BY <1>1 DEF Return, Become, IdleThread

LEMMA EntryFields ==
  ASSUME IInv, NEW v \in Vcpus, Become(v, NextEntry(thr[v]))
  PROVE  /\ thr'[v].pc = "loop" /\ thr'[v].cur = WrapInc(thr[v].cur)
         /\ thr'[v].snap = thr[v].snap /\ thr'[v].seen = thr[v].seen
         /\ thr'[v].errs = thr[v].errs
  <1>1. thr \in [Vcpus -> Thread] /\ thr[v] \in Thread
    BY DEF IInv, TypeOK
  <1> QED BY <1>1 DEF NextEntry, Become, Thread

LEMMA FailFields ==
  ASSUME IInv, NEW v \in Vcpus,
         Become(v, [NextEntry(thr[v]) EXCEPT !.errs = Append(thr[v].errs, thr[v].desc)])
  PROVE  /\ thr'[v].pc = "loop" /\ thr'[v].cur = WrapInc(thr[v].cur)
         /\ thr'[v].snap = thr[v].snap /\ thr'[v].seen = thr[v].seen
         /\ thr'[v].errs = Append(thr[v].errs, thr[v].desc)
  <1>1. thr \in [Vcpus -> Thread] /\ thr[v] \in Thread
    BY DEF IInv, TypeOK
  <1> QED BY <1>1 DEF NextEntry, Become, Thread

LEMMA ErrorFields ==
  ASSUME IInv, NEW v \in Vcpus, Become(v, NextError(thr[v]))
  PROVE  /\ thr'[v].pc = "errUsed" /\ thr'[v].snap = thr[v].snap
         /\ thr'[v].errs = Tail(thr[v].errs)
  <1>1. thr \in [Vcpus -> Thread] /\ thr[v] \in Thread
    BY DEF IInv, TypeOK
  <1> QED BY <1>1 DEF NextError, Become, Thread

----------------------------------------------------------------------------
(* Steps of the handler.  Each keeps the invariant and gives up nothing but  *)
(* what GivesUp allows.                                                      *)

\* What a step of the handler has to keep.
Keeps(v) == SerialInv(v)' /\ Kept(v) /\ Passed(v)

\* The frame of a step that changes neither the driver's state nor the queue.
LEMMA FrameStep ==
  ASSUME NEW v \in Vcpus, SerialInv(v), FullSize(thr'[v].snap),
         UNCHANGED <<drv, outstanding, lastUsed, irqPhase, availIdx, availRing, usedRing,
                     usedIdx, queue>>,
         CursorOf(thr'[v], queue) = CursorOf(thr[v], queue),
         HandOf(thr'[v]) = HandOf(thr[v]), thr'[v].errs = thr[v].errs,
         Sees(thr'[v], queue, availIdx, chain')
  PROVE  Keeps(v)
  <1>1. FullSize(queue)' /\ SetUpOK' /\ FullSize(thr[v].snap)'
    BY DEF SerialInv, SetUpOK, FullSize
  <1>2. Sees(thr[v], queue, availIdx, chain)'
    OBVIOUS
  <1>3. (Placed(v) => Placed(v)') /\ (NotAhead => NotAhead') /\ Kept(v) /\ Passed(v)
    BY Unmoved
  <1> QED BY <1>1, <1>2, <1>3 DEF SerialInv, Keeps

LEMMA NewQueueFull == FullSize(NewQueue)
  BY DEF FullSize, NewQueue, NoRing, NewRing

\* Notify, and the tests before the loop.
LEMMA EnterStep ==
  ASSUME IInv, FreshInv, NEW v \in Vcpus, SerialInv(v),
         Notify(v) \/ CheckReady(v) \/ CloneQueue(v) \/ ReadAvailIdx(v)
  PROVE  Keeps(v)
  <1>t. thr[v] \in Thread /\ queue \in Queue /\ thr \in [Vcpus -> Thread]
    BY DEF IInv, TypeOK
  <1>u. UNCHANGED <<drv, outstanding, lastUsed, irqPhase, availIdx, availRing, usedRing,
                    usedIdx, queue, chain>>
    BY DEF Notify, CheckReady, CloneQueue, ReadAvailIdx, mem, driver, device
  <1>e. /\ thr[v].pc \in {"idle", "ready", "clone", "avail"} /\ thr[v].errs = <<>>
        /\ FullSize(thr[v].snap) /\ FullSize(queue)
    BY DEF Notify, CheckReady, CloneQueue, ReadAvailIdx, At, SerialInv, Sees, InLoop, OnCopy
  <1>1. ASSUME thr'[v].pc \in {"idle", "ready", "clone"}, thr'[v].errs = <<>>,
               FullSize(thr'[v].snap)
        PROVE  Keeps(v)
    <2>1. /\ CursorOf(thr'[v], queue) = CursorOf(thr[v], queue)
          /\ HandOf(thr'[v]) = HandOf(thr[v])
      BY <1>1, <1>e DEF CursorOf, HandOf, InLoop, OnCopy
    <2>2. Sees(thr'[v], queue, availIdx, chain')
      BY <1>1 DEF Sees, InLoop, OnCopy
    <2> QED BY <1>1, <1>e, <1>u, <2>1, <2>2, FrameStep
  <1>2. CASE Return(v)
    BY <1>2, <1>1, ReturnFields, NewQueueFull
  <1>3. CASE Goto(v, "ready") \/ Goto(v, "clone")
    BY <1>3, <1>e, <1>1, GotoFields DEF PC, SameLocals
  <1>4. CASE CloneQueue(v) /\ ~Return(v)
    <2>b. Become(v, [thr[v] EXCEPT !.pc = "avail", !.snap = queue])
      BY <1>4 DEF CloneQueue
    <2>1. thr'[v].pc = "avail" /\ thr'[v].snap = queue /\ thr'[v].errs = thr[v].errs
      BY <2>b, <1>t DEF Become, Thread
    <2>2. /\ CursorOf(thr'[v], queue) = CursorOf(thr[v], queue)
          /\ HandOf(thr'[v]) = HandOf(thr[v])
      BY <2>1, <1>e DEF CursorOf, HandOf, InLoop, OnCopy
    <2>3. Sees(thr'[v], queue, availIdx, chain')
      BY <2>1, <1>e DEF Sees, InLoop, OnCopy
    <2> QED BY <1>e, <1>u, <2>1, <2>2, <2>3, FrameStep
  <1>5. CASE ReadAvailIdx(v) /\ ~Return(v)
    <2>1. /\ thr'[v].pc = "loop" /\ thr'[v].snap = thr[v].snap
          /\ thr'[v].cur = LastAvail(thr[v].snap) /\ thr'[v].seen = availIdx
          /\ thr'[v].errs = thr[v].errs
      BY <1>5, <1>t DEF ReadAvailIdx, Become, Thread
    <2>2. LastAvail(thr[v].snap) = LastAvail(queue)
      BY <1>5 DEF ReadAvailIdx, At, SerialInv, Sees, OnCopy
    <2>3. /\ CursorOf(thr'[v], queue) = CursorOf(thr[v], queue)
          /\ HandOf(thr'[v]) = HandOf(thr[v])
      BY <2>1, <2>2, <1>e DEF CursorOf, HandOf, InLoop, OnCopy
    <2>4. LastAvail(queue) \in Idx /\ availIdx \in Idx
      BY <1>t, LastAvailType DEF IInv, TypeOK
    <2>5. Dist(LastAvail(queue), availIdx) <= Dist(LastAvail(queue), availIdx)
      BY <2>4, DistCases
    <2>6. Sees(thr'[v], queue, availIdx, chain')
      BY <2>1, <2>2, <2>5, <1>e DEF Sees, CursorOf, InLoop, OnCopy
    <2> QED BY <1>e, <1>u, <2>1, <2>3, <2>6, FrameStep
  <1> QED BY <1>2, <1>3, <1>4, <1>5 DEF Notify, CheckReady, CloneQueue, ReadAvailIdx

\* The cursor passes an entry: the index read stays between it and the driver's.
LEMMA SeenAfter ==
  ASSUME NEW c \in Idx, NEW s \in Idx, NEW a \in Idx, c # s, Dist(c, s) <= Dist(c, a)
  PROVE  c # a /\ Dist(WrapInc(c), s) <= Dist(WrapInc(c), a)
  <1>1. Dist(c, s) \in Nat /\ Dist(c, a) \in Nat /\ Dist(c, s) # 0
    BY DistCases
  <1>2. c # a
    BY <1>1, DistCases
  <1> QED BY <1>1, <1>2, DistShrinks

\* The types that the lemmas about windows ask for.
PlaceTypes(v) ==
  /\ availRing \in [Slots -> Slots] /\ usedRing \in [Slots -> Slots]
  /\ availIdx \in Idx /\ lastUsed \in Idx /\ usedIdx \in Idx
  /\ queue.ring["used"].idx \in Idx
  /\ thr[v].cur \in Idx /\ thr[v].seen \in Idx /\ thr[v].desc \in Slots
  /\ thr[v].errs \in Seq(Slots)
  /\ CursorOf(thr[v], queue) \in Idx
  /\ outstanding \subseteq Slots

LEMMA PlacesTyped ==
  ASSUME IInv, NEW v \in Vcpus
  PROVE  PlaceTypes(v)
  <1>1. thr[v] \in Thread /\ queue \in Queue
    BY DEF IInv, TypeOK
  <1>2. LastAvail(queue) \in Idx /\ WrapInc(thr[v].cur) \in Idx /\ thr[v].cur \in Idx
    BY <1>1, LastAvailType, WrapIncType DEF Thread
  <1>3. CursorOf(thr[v], queue) \in Idx
    BY <1>2 DEF CursorOf
  <1>4. queue.ring["used"].idx \in Idx
    BY <1>1 DEF Queue, Ring, RingName
  <1> QED BY <1>1, <1>2, <1>3, <1>4, DeviceAssumption DEF IInv, TypeOK, Thread, PlaceTypes

\* read_avail_entry, when it succeeds and when it fails.
LEMMA TakeStep ==
  ASSUME IInv, FreshInv, NEW v \in Vcpus, SerialInv(v), ReadAvailEntry(v)
  PROVE  /\ Keeps(v)
         /\ thr'[v].pc = "parse" => thr'[v].desc \in Waiting(v)
  <1> DEFINE c == thr[v].cur
             h == availRing[c % MaxQueueSize]
             u == queue.ring["used"].idx
  <1>t. thr[v] \in Thread /\ queue \in Queue /\ thr \in [Vcpus -> Thread]
    BY DEF IInv, TypeOK
  <1>y. PlaceTypes(v)
    BY PlacesTyped
  <1>u. UNCHANGED <<drv, outstanding, lastUsed, irqPhase, availIdx, availRing, usedRing,
                    usedIdx, queue, chain>>
    BY DEF ReadAvailEntry, mem, driver, device
  <1>l. thr[v].pc = "loop" /\ c # thr[v].seen
    BY DEF ReadAvailEntry, At
  <1>w. /\ drv = "run" /\ Placed(v) /\ NotAhead
        /\ AvailSlot(thr[v].snap, c) = c % MaxQueueSize
    BY <1>l, AtWork DEF OnCopy
  <1>s. /\ CursorOf(thr[v], queue) = c /\ HandOf(thr[v]) = {}
        /\ Dist(c, thr[v].seen) <= Dist(c, availIdx)
        /\ LastAvail(thr[v].snap) = LastAvail(queue)
    BY <1>l DEF CursorOf, HandOf, SerialInv, Sees, InLoop, OnCopy
  <1>d. c # availIdx /\ Dist(WrapInc(c), thr[v].seen) <= Dist(WrapInc(c), availIdx)
    BY <1>y, <1>l, <1>s, SeenAfter DEF PlaceTypes
  <1>p. /\ InPlace(availRing, WrapInc(c), availIdx, {h}, thr[v].errs, usedRing, lastUsed, u,
                   outstanding)
        /\ RingWindow(availRing, c, availIdx)
             = RingWindow(availRing, WrapInc(c), availIdx) \cup {h}
    <2>1. InPlace(availRing, c, availIdx, {}, thr[v].errs, usedRing, lastUsed, u, outstanding)
      BY <1>s, <1>w DEF Placed
    <2> QED BY <1>y, <1>d, <2>1, EntryTaken DEF PlaceTypes
  <1>q. InPlace(availRing, WrapInc(c), availIdx, {}, thr[v].errs, usedRing, lastUsed, u,
                outstanding)
    BY <1>p, HandDropped
  <1>f. FullSize(queue)' /\ SetUpOK' /\ NotAhead'
    BY <1>u, <1>w DEF SerialInv, SetUpOK, FullSize, NotAhead
  <1>a. ASSUME CursorOf(thr'[v], queue') = WrapInc(c)
        PROVE  Passed(v)
    <2>1. Counted' = Counted
      BY <1>u DEF Counted
    <2>2. Waiting(v)' \subseteq Waiting(v)
      BY <1>u, <1>s, <1>p, <1>a, WaitingIs
    <2> QED BY <2>1, <2>2 DEF Passed
  <1>1. CASE Become(v, [thr[v] EXCEPT !.pc = "parse",
                          !.desc = availRing[AvailSlot(thr[v].snap, thr[v].cur)]])
    <2>1. /\ thr'[v].pc = "parse" /\ thr'[v].desc = h /\ thr'[v].cur = c
          /\ thr'[v].snap = thr[v].snap /\ thr'[v].seen = thr[v].seen
          /\ thr'[v].errs = thr[v].errs
      BY <1>1, <1>t, <1>w DEF Become, Thread
    <2>2. CursorOf(thr'[v], queue') = WrapInc(c) /\ HandOf(thr'[v]) = {h}
      BY <2>1 DEF CursorOf, HandOf, InLoop, OnCopy
    <2>3. Placed(v)'
      BY <1>u, <1>p, <2>1, <2>2 DEF Placed
    <2>4. Sees(thr[v], queue, availIdx, chain)'
      BY <1>u, <1>s, <1>d, <2>1, <2>2 DEF Sees, InLoop, OnCopy
    <2>5. Somewhere(v)' = Somewhere(v)
      <3> DEFINE rest == ToSet(thr[v].errs) \cup RingWindow(usedRing, lastUsed, u)
      <3>1. Somewhere(v) = RingWindow(availRing, c, availIdx) \cup {} \cup rest
        BY <1>s, SomewhereIs
      <3>2. Somewhere(v)' = RingWindow(availRing, WrapInc(c), availIdx) \cup {h} \cup rest
        BY <1>u, <2>1, <2>2, SomewhereIs
      <3> QED BY <1>p, <3>1, <3>2
    <2>6. FullSize(thr[v].snap)'
      BY <2>1 DEF SerialInv
    <2>7. thr'[v].desc \in Waiting(v)
      BY <1>s, <1>p, <2>1, WaitingIs
    <2> QED BY <1>f, <1>a, <2>2, <2>3, <2>4, <2>5, <2>6, <2>7 DEF Keeps, Kept, SerialInv
  <1>2. CASE "availEntry" \in Faults /\ Become(v, NextEntry(thr[v]))
    <2>1. /\ thr'[v].pc = "loop" /\ thr'[v].cur = WrapInc(c)
          /\ thr'[v].snap = thr[v].snap /\ thr'[v].seen = thr[v].seen
          /\ thr'[v].errs = thr[v].errs
      BY <1>2, EntryFields
    <2>2. CursorOf(thr'[v], queue') = WrapInc(c) /\ HandOf(thr'[v]) = {}
      BY <2>1 DEF CursorOf, HandOf
    <2>3. Placed(v)'
      BY <1>u, <1>q, <2>1, <2>2 DEF Placed
    <2>4. Sees(thr[v], queue, availIdx, chain)'
      BY <1>u, <1>s, <1>d, <2>1, <2>2 DEF Sees, InLoop, OnCopy
    <2>5. Kept(v)
      BY <1>2, <1>l, <2>1 DEF Kept, GivesUp, At
    <2>6. FullSize(thr[v].snap)'
      BY <2>1 DEF SerialInv
    <2> QED BY <1>f, <1>a, <2>1, <2>2, <2>3, <2>4, <2>5, <2>6 DEF Keeps, SerialInv
  <1> QED BY <1>1, <1>2 DEF ReadAvailEntry

\* A request in hand is given up, and the handler goes on.
LEMMA DropStep ==
  ASSUME IInv, FreshInv, NEW v \in Vcpus, SerialInv(v),
         thr[v].pc \in InLoop \ {"loop"}, Become(v, NextEntry(thr[v])),
         UNCHANGED <<drv, outstanding, lastUsed, irqPhase, availIdx, availRing, usedRing,
                     usedIdx, queue, chain>>,
         \A h \in HandOf(thr[v]) : GivesUp(v, h)
  PROVE  Keeps(v)
  <1>1. /\ thr'[v].pc = "loop" /\ thr'[v].cur = WrapInc(thr[v].cur)
        /\ thr'[v].snap = thr[v].snap /\ thr'[v].seen = thr[v].seen
        /\ thr'[v].errs = thr[v].errs
    BY EntryFields
  <1>2. /\ CursorOf(thr'[v], queue') = CursorOf(thr[v], queue)
        /\ HandOf(thr'[v]) = {}
    BY <1>1 DEF CursorOf, HandOf
  <1>3. drv = "run" /\ Placed(v) /\ NotAhead
    BY AtWork DEF InLoop, OnCopy
  <1>4. Placed(v)'
    BY <1>1, <1>2, <1>3, HandDropped DEF Placed
  <1>5. Sees(thr[v], queue, availIdx, chain)'
    BY <1>1, <1>2 DEF Sees, SerialInv, InLoop, OnCopy
  <1>6. Kept(v)
    <2>1. Somewhere(v) \ Somewhere(v)' \subseteq HandOf(thr[v])
      BY <1>1, <1>2, SomewhereIs
    <2> QED BY <2>1 DEF Kept
  <1>7. FullSize(queue)' /\ SetUpOK' /\ NotAhead' /\ FullSize(thr[v].snap)'
    BY <1>1, <1>3 DEF SerialInv, SetUpOK, FullSize, NotAhead
  <1>8. Passed(v)
    <2>1. Counted' = Counted
      BY DEF Counted
    <2> QED BY <1>2, <2>1, NonePassed
  <1> QED BY <1>4, <1>5, <1>6, <1>7, <1>8 DEF Keeps, SerialInv

\* A step inside the loop that leaves everything in its place.
LEMMA InsideStep ==
  ASSUME IInv, FreshInv, NEW v \in Vcpus, SerialInv(v),
         thr[v].pc \in InLoop \ {"loop"}, thr'[v].pc \in InLoop \ {"loop"},
         UNCHANGED <<drv, outstanding, lastUsed, irqPhase, availIdx, availRing, usedRing,
                     usedIdx, queue, chain>>,
         thr'[v].cur = thr[v].cur, thr'[v].seen = thr[v].seen, thr'[v].snap = thr[v].snap,
         thr'[v].errs = thr[v].errs, HandOf(thr'[v]) = HandOf(thr[v]),
         thr'[v].pc \in {"fail", "exec", "status", "used", "publish"} =>
           /\ thr'[v].req = chain[thr'[v].desc]
           /\ thr'[v].pc = "fail" <=> thr'[v].req \in {"bad", "nostatus"}
  PROVE  Keeps(v)
  <1>1. CursorOf(thr'[v], queue) = CursorOf(thr[v], queue)
    BY DEF CursorOf, InLoop, OnCopy
  <1>2. Sees(thr'[v], queue, availIdx, chain')
    BY <1>1 DEF Sees, SerialInv, InLoop, OnCopy
  <1>3. FullSize(thr'[v].snap)
    BY DEF SerialInv
  <1> QED BY <1>1, <1>2, <1>3, FrameStep

\* Parsing, execution, the status byte and the interrupt of a request.
LEMMA RequestStep ==
  ASSUME IInv, FreshInv, NEW v \in Vcpus, SerialInv(v),
         ParseRequest(v) \/ Execute(v) \/ WriteStatus(v) \/ TriggerInterrupt(v)
  PROVE  Keeps(v)
  <1>t. thr[v] \in Thread /\ thr \in [Vcpus -> Thread] /\ chain \in [Slots -> Kind]
    BY DEF IInv, TypeOK
  <1>u. UNCHANGED <<drv, outstanding, lastUsed, irqPhase, availIdx, availRing, usedRing,
                    usedIdx, queue, chain>>
    BY DEF ParseRequest, Execute, WriteStatus, TriggerInterrupt, mem, driver, device
  <1>p. thr[v].pc \in InLoop \ {"loop"}
    BY DEF ParseRequest, Execute, WriteStatus, TriggerInterrupt, At, InLoop, OnCopy
  <1>1. CASE ParseRequest(v)
    <2> DEFINE k == chain[thr[v].desc]
               pc == IF k \in {"bad", "nostatus"} THEN "fail" ELSE "exec"
    <2>b. Become(v, [thr[v] EXCEPT !.req = k, !.pc = pc]) /\ thr[v].pc = "parse"
      BY <1>1 DEF ParseRequest, At
    <2>1. /\ thr'[v].pc = pc /\ thr'[v].req = k /\ thr'[v].desc = thr[v].desc
          /\ thr'[v].cur = thr[v].cur /\ thr'[v].seen = thr[v].seen
          /\ thr'[v].snap = thr[v].snap /\ thr'[v].errs = thr[v].errs
      BY <2>b, <1>t DEF Become, Thread
    <2>2. thr'[v].pc \in {"fail", "exec"} /\ HandOf(thr'[v]) = HandOf(thr[v])
      BY <2>b, <2>1 DEF HandOf
    <2>3. thr'[v].pc \in InLoop \ {"loop"}
      BY <2>2 DEF InLoop, OnCopy
    <2> QED BY <1>u, <1>p, <2>1, <2>2, <2>3, InsideStep
  <1>2. CASE Execute(v)
    <2>b. PICK r \in Outcome(thr[v].req) :
            Become(v, [thr[v] EXCEPT !.pc = "status", !.res = r])
      BY <1>2 DEF Execute
    <2>e. thr[v].pc = "exec"
      BY <1>2 DEF Execute, At
    <2>1. /\ thr'[v].pc = "status" /\ thr'[v].req = thr[v].req /\ thr'[v].desc = thr[v].desc
          /\ thr'[v].cur = thr[v].cur /\ thr'[v].seen = thr[v].seen
          /\ thr'[v].snap = thr[v].snap /\ thr'[v].errs = thr[v].errs
      BY <2>b, <1>t DEF Become, Thread
    <2>2. HandOf(thr'[v]) = HandOf(thr[v]) /\ thr'[v].pc \in InLoop \ {"loop"}
      BY <2>e, <2>1 DEF HandOf, InLoop, OnCopy
    <2>3. thr[v].req = chain[thr[v].desc] /\ thr[v].req \notin {"bad", "nostatus"}
      BY <2>e DEF SerialInv, Sees
    <2> QED BY <1>u, <1>p, <2>1, <2>2, <2>3, InsideStep
  <1>3. CASE WriteStatus(v)
    <2>e. thr[v].pc = "status"
      BY <1>3 DEF WriteStatus, At
    <2>3. thr[v].req = chain[thr[v].desc] /\ thr[v].req \notin {"bad", "nostatus"}
      BY <2>e DEF SerialInv, Sees
    <2>1. CASE Goto(v, "used")
      <3>1. thr'[v].pc = "used" /\ SameLocals(thr'[v], thr[v])
        BY <2>1, GotoFields DEF PC
      <3>2. HandOf(thr'[v]) = HandOf(thr[v]) /\ thr'[v].pc \in InLoop \ {"loop"}
        BY <2>e, <3>1 DEF HandOf, InLoop, OnCopy, SameLocals
      <3> QED BY <1>u, <1>p, <2>3, <3>1, <3>2, InsideStep DEF SameLocals
    <2>2. CASE Become(v, NextEntry(thr[v])) /\ ~StatusWritable(thr[v].desc)
      <3>1. thr'[v].pc = "loop"
        BY <2>2, EntryFields
      <3>2. chain[thr[v].desc] = "unmapped"
        BY <2>2, <2>3 DEF StatusWritable
      <3>3. \A h \in HandOf(thr[v]) : GivesUp(v, h)
        BY <2>e, <3>1, <3>2 DEF HandOf, GivesUp, At
      <3> QED BY <1>u, <1>p, <2>2, <3>3, DropStep
    <2> QED BY <1>3, <2>1, <2>2 DEF WriteStatus
  <1>4. CASE TriggerInterrupt(v)
    <2>e. thr[v].pc = "irq" /\ Become(v, NextEntry(thr[v]))
      BY <1>4 DEF TriggerInterrupt, At
    <2>1. \A h \in HandOf(thr[v]) : GivesUp(v, h)
      BY <2>e DEF HandOf
    <2> QED BY <1>u, <1>p, <2>e, <2>1, DropStep
  <1> QED BY <1>1, <1>2, <1>3, <1>4

\* add_used, first half, of the request in hand.
LEMMA ElementStep ==
  ASSUME IInv, FreshInv, NEW v \in Vcpus, SerialInv(v), AddUsed(v)
  PROVE  Keeps(v)
  <1> DEFINE u == queue.ring["used"].idx
             h == thr[v].desc
  <1>u. UNCHANGED <<drv, outstanding, lastUsed, irqPhase, availIdx, availRing, usedIdx,
                    queue, chain>>
    BY DEF AddUsed, driver
  <1>p. thr[v].pc = "used" /\ thr[v].pc \in InLoop \ {"loop"}
    BY DEF AddUsed, At, InLoop, OnCopy
  <1>w. /\ drv = "run" /\ Placed(v) /\ NotAhead /\ HasAddrs(queue)
        /\ UsedSlot(queue) = u % MaxQueueSize
    BY <1>p, AtWork
  <1>y. PlaceTypes(v)
    BY PlacesTyped
  <1>1. CASE WriteUsedElem(h) /\ Goto(v, "publish")
    <2>1. thr'[v].pc = "publish" /\ SameLocals(thr'[v], thr[v])
      BY <1>1, GotoFields DEF PC
    <2>2. /\ CursorOf(thr'[v], queue) = CursorOf(thr[v], queue)
          /\ HandOf(thr'[v]) = {h} /\ HandOf(thr[v]) = {h}
      BY <1>p, <2>1 DEF CursorOf, HandOf, InLoop, OnCopy, SameLocals
    <2>3. usedRing' = Put(usedRing, u, h)
      BY <1>1, <1>w DEF WriteUsedElem, Put
    <2>4. /\ InPlace(availRing, CursorOf(thr[v], queue), availIdx, {h}, thr[v].errs,
                     Put(usedRing, u, h), lastUsed, u, outstanding)
          /\ RingWindow(Put(usedRing, u, h), lastUsed, u) = RingWindow(usedRing, lastUsed, u)
      <3>1. InPlace(availRing, CursorOf(thr[v], queue), availIdx, {h}, thr[v].errs,
                    usedRing, lastUsed, u, outstanding)
        BY <1>w, <2>2 DEF Placed
      <3>2. h \in Slots /\ u \in Idx /\ lastUsed \in Idx /\ usedRing \in [Slots -> Slots]
        BY <1>y DEF PlaceTypes
      <3> HIDE DEF h, u
      <3>3. h \in {h} \cup ToSet(thr[v].errs)
        OBVIOUS
      <3> QED BY <3>1, <3>2, <3>3, ElementWritten
    <2>5. Placed(v)'
      BY <1>u, <2>1, <2>2, <2>3, <2>4 DEF Placed, SameLocals
    <2>6. Somewhere(v)' = Somewhere(v)
      <3>1. RingWindow(usedRing', lastUsed', queue'.ring["used"].idx)
              = RingWindow(usedRing, lastUsed, u)
        BY <1>u, <2>3, <2>4
      <3>2. RingWindow(availRing', CursorOf(thr'[v], queue'), availIdx')
              = RingWindow(availRing, CursorOf(thr[v], queue), availIdx)
        BY <1>u, <2>2
      <3>3. HandOf(thr'[v]) = HandOf(thr[v]) /\ ToSet(thr'[v].errs) = ToSet(thr[v].errs)
        BY <2>1, <2>2 DEF SameLocals
      <3> QED BY <3>1, <3>2, <3>3, SomewhereIs
    <2>7. Sees(thr[v], queue, availIdx, chain)'
      BY <1>u, <1>p, <2>1, <2>2 DEF Sees, SerialInv, InLoop, OnCopy, SameLocals
    <2>8. FullSize(queue)' /\ SetUpOK' /\ NotAhead' /\ FullSize(thr[v].snap)'
      BY <1>u, <1>w, <2>1 DEF SerialInv, SetUpOK, FullSize, NotAhead, SameLocals
    <2>9. Passed(v)
      <3>1. Counted' = Counted
        BY <1>u, <2>3, <2>4 DEF Counted
      <3> QED BY <1>u, <2>2, <3>1, NonePassed
    <2> QED BY <2>5, <2>6, <2>7, <2>8, <2>9 DEF Keeps, Kept, SerialInv
  <1>2. CASE /\ ~IsValid(queue) \/ "usedElem" \in Faults
             /\ Become(v, NextEntry(thr[v]))
             /\ UNCHANGED usedRing
    <2>1. thr'[v].pc = "loop"
      BY <1>2, EntryFields
    <2>2. "usedElem" \in Faults \/ ~queue.ready
      BY <1>2, <1>w DEF IsValid
    <2>3. \A g \in HandOf(thr[v]) : GivesUp(v, g)
      BY <1>p, <2>1, <2>2 DEF GivesUp, At
    <2> QED BY <1>2, <1>u, <1>p, <2>3, DropStep
  <1> QED BY <1>1, <1>2 DEF AddUsed

LEMMA UsedFields ==
  ASSUME NEW q \in Queue
  PROVE  LET p == CountUsed(q)
         IN  /\ p.ring["used"].idx = WrapInc(q.ring["used"].idx)
             /\ p.addr = q.addr /\ p.size = q.size
             /\ p.ring["avail"] = q.ring["avail"] /\ p.nextAvail = q.nextAvail
             /\ \A r \in RingName : p.ring[r].size = q.ring[r].size
  <1> DEFINE p == CountUsed(q)
             ring == [q.ring["used"] EXCEPT !.idx = WrapInc(@)]
  <1>1. ring.idx = WrapInc(q.ring["used"].idx) /\ ring.size = q.ring["used"].size
    BY DEF Queue, Ring, RingName
  <1>2. /\ p.ring = [q.ring EXCEPT !["used"] = ring]
        /\ p.addr = q.addr /\ p.size = q.size /\ p.nextAvail = q.nextAvail
    BY DEF CountUsed, Queue
  <1> HIDE DEF p, ring
  <1>3. q.ring \in [RingName -> Ring]
    BY DEF Queue
  <1>4. /\ p.ring["used"] = ring /\ p.ring["avail"] = q.ring["avail"]
        /\ p.ring["desc"] = q.ring["desc"]
    BY <1>2, <1>3 DEF RingName
  <1>5. /\ p.ring["used"].idx = WrapInc(q.ring["used"].idx)
        /\ \A r \in RingName : p.ring[r].size = q.ring[r].size
    BY <1>1, <1>4 DEF RingName
  <1> QED BY <1>2, <1>4, <1>5 DEF p

\* add_used, second half: whether or not the index is written, the device has counted
\* the element.
LEMMA IndexMoves ==
  ASSUME IInv, NEW v \in Vcpus, SerialInv(v),
         PublishUsedIdx \/ CountUnpublished,
         HasAddrs(queue), Dist(lastUsed, queue.ring["used"].idx) < MaxQueueSize, NotAhead
  PROVE  LET u == queue.ring["used"].idx
         IN  /\ queue'.ring["used"].idx = WrapInc(u)
             /\ queue'.addr = queue.addr
             /\ LastAvail(queue') = LastAvail(queue)
             /\ FullSize(queue')
             /\ lastUsed' = lastUsed => NotAhead'
             /\ usedIdx' \in {usedIdx, WrapInc(u)}
  <1> DEFINE u == queue.ring["used"].idx
  <1>t. queue \in Queue
    BY DEF IInv, TypeOK
  <1>y. PlaceTypes(v)
    BY PlacesTyped
  <1>1. queue' = CountUsed(queue) /\ usedIdx' \in {usedIdx, queue'.ring["used"].idx}
    BY DEF PublishUsedIdx, CountUnpublished
  <1>2. /\ queue'.ring["used"].idx = WrapInc(u) /\ queue'.addr = queue.addr
        /\ queue'.size = queue.size
        /\ queue'.ring["avail"] = queue.ring["avail"] /\ queue'.nextAvail = queue.nextAvail
        /\ \A r \in RingName : queue'.ring[r].size = queue.ring[r].size
    BY <1>1, <1>t, UsedFields
  <1>3. LastAvail(queue') = LastAvail(queue)
    BY <1>2 DEF LastAvail
  <1>4. FullSize(queue')
    BY <1>2 DEF SerialInv, FullSize
  <1>5. usedIdx' \in {usedIdx, WrapInc(u)}
    BY <1>1, <1>2
  <1>6. ASSUME lastUsed' = lastUsed PROVE NotAhead'
    <2>1. lastUsed \in Idx /\ u \in Idx /\ usedIdx \in Idx
      BY <1>y DEF PlaceTypes
    <2>2. Dist(lastUsed, WrapInc(u)) = Dist(lastUsed, u) + 1
      BY <2>1, DistCases, DistGrows, SizeFacts
    <2>3. Dist(lastUsed, usedIdx) <= Dist(lastUsed, u)
      BY DEF NotAhead
    <2>4. Dist(lastUsed, usedIdx) \in Nat /\ Dist(lastUsed, u) \in Nat
      BY <2>1, DistCases
    <2>5. CASE usedIdx' = usedIdx
      BY <1>2, <1>6, <2>2, <2>3, <2>4, <2>5 DEF NotAhead
    <2>6. CASE usedIdx' = WrapInc(u)
      BY <1>2, <1>6, <2>2, <2>4, <2>6 DEF NotAhead
    <2> QED BY <1>5, <2>5, <2>6
  <1> QED BY <1>2, <1>3, <1>4, <1>5, <1>6

\* Of the request in hand.
LEMMA PublishStep ==
  ASSUME IInv, FreshInv, PublishesOwnElement, NEW v \in Vcpus, SerialInv(v), Publish(v)
  PROVE  /\ Keeps(v)
         /\ Placed(v) /\ drv = "run" /\ outstanding' = outstanding /\ lastUsed' = lastUsed
         /\ Counted' = Counted \cup {thr[v].desc}
         /\ thr[v].desc \notin Counted
  <1> DEFINE u == queue.ring["used"].idx
             h == thr[v].desc
             c == CursorOf(thr[v], queue)
  <1>u. /\ UNCHANGED <<drv, outstanding, lastUsed, irqPhase, availIdx, availRing, usedRing,
                       chain>>
        /\ PublishUsedIdx \/ CountUnpublished
    BY DEF Publish, driver
  <1>p. thr[v].pc = "publish"
    BY DEF Publish, At
  <1>w. /\ drv = "run" /\ Placed(v) /\ NotAhead /\ HasAddrs(queue)
        /\ UsedSlot(queue) = u % MaxQueueSize
    BY <1>p, AtWork
  <1>y. /\ usedRing \in [Slots -> Slots] /\ lastUsed \in Idx /\ u \in Idx /\ h \in Slots
    BY PlacesTyped DEF PlaceTypes
  <1>h. HandOf(thr[v]) = {h} /\ usedRing[u % MaxQueueSize] = h
    BY <1>p, <1>w DEF HandOf, PublishesOwnElement, At
  <1>1. InPlace(availRing, c, availIdx, {h}, thr[v].errs, usedRing, lastUsed, u, outstanding)
    BY <1>w, <1>h DEF Placed
  <1>2. Dist(lastUsed, u) < MaxQueueSize /\ h \notin RingWindow(usedRing, lastUsed, u)
    BY <1>1, <1>y, WindowRoom DEF InPlace, Apart
  <1> HIDE DEF h, u, c
  <1>3. /\ InPlace(availRing, c, availIdx, {}, thr[v].errs, usedRing, lastUsed, WrapInc(u),
                   outstanding)
        /\ RingWindow(usedRing, lastUsed, WrapInc(u)) = RingWindow(usedRing, lastUsed, u) \cup {h}
    BY <1>1, <1>y, <1>h, HandCounted
  <1>4. /\ queue'.ring["used"].idx = WrapInc(u) /\ queue'.addr = queue.addr
        /\ LastAvail(queue') = LastAvail(queue) /\ FullSize(queue') /\ NotAhead'
    BY <1>u, <1>w, <1>2, IndexMoves DEF u
  <1>5. /\ thr'[v].pc \in {"irq", "loop"} /\ thr'[v].errs = thr[v].errs
        /\ thr'[v].snap = thr[v].snap /\ thr'[v].seen = thr[v].seen
        /\ thr'[v].pc = "irq" => thr'[v].cur = thr[v].cur
        /\ thr'[v].pc = "loop" => thr'[v].cur = WrapInc(thr[v].cur)
    <2>1. Goto(v, "irq") \/ Become(v, NextEntry(thr[v]))
      BY DEF Publish
    <2> QED BY <2>1, GotoFields, EntryFields DEF SameLocals, PC
  <1>6. CursorOf(thr'[v], queue') = c /\ HandOf(thr'[v]) = {}
    BY <1>p, <1>5 DEF c, CursorOf, HandOf, InLoop, OnCopy
  <1>7. Placed(v)'
    BY <1>u, <1>3, <1>4, <1>5, <1>6 DEF Placed
  <1>8. Sees(thr[v], queue, availIdx, chain)'
    BY <1>u, <1>p, <1>4, <1>5, <1>6 DEF Sees, SerialInv, InLoop, OnCopy, c
  <1>9. SetUpOK'
    BY <1>u, <1>w, <1>4 DEF SerialInv, SetUpOK, SettingUp
  <1>10. FullSize(thr[v].snap)'
    BY <1>5 DEF SerialInv
  <1>11. Counted' = Counted \cup {h} /\ h \notin Counted
    BY <1>u, <1>2, <1>3, <1>4 DEF Counted, u
  <1>12. Kept(v)
    <2>1. Somewhere(v) \subseteq Somewhere(v)'
      <3> DEFINE rest == RingWindow(availRing, c, availIdx) \cup ToSet(thr[v].errs)
      <3>1. Somewhere(v) = rest \cup {h} \cup RingWindow(usedRing, lastUsed, u)
        BY <1>h, SomewhereIs DEF c, u
      <3>2. Somewhere(v)' = rest \cup {} \cup RingWindow(usedRing, lastUsed, WrapInc(u))
        BY <1>u, <1>4, <1>5, <1>6, SomewhereIs
      <3> QED BY <1>3, <3>1, <3>2
    <2> QED BY <2>1 DEF Kept
  <1>13. Passed(v)
    BY <1>u, <1>6, NonePassed DEF c
  <1> QED BY <1>u, <1>w, <1>4, <1>7, <1>8, <1>9, <1>10, <1>11, <1>12, <1>13
      DEF Keeps, SerialInv, h

\* A request that cannot be processed is kept for the end of the loop.
LEMMA FailStep ==
  ASSUME IInv, FreshInv, NEW v \in Vcpus, SerialInv(v), FailRequest(v)
  PROVE  Keeps(v)
  <1> DEFINE h == thr[v].desc
             c == CursorOf(thr[v], queue)
             u == queue.ring["used"].idx
  <1>u. UNCHANGED <<drv, outstanding, lastUsed, irqPhase, availIdx, availRing, usedRing,
                    usedIdx, queue, chain>>
    BY DEF FailRequest, driver, device
  <1>p. thr[v].pc = "fail"
    BY DEF FailRequest, At
  <1>w. drv = "run" /\ Placed(v) /\ NotAhead
    BY <1>p, AtWork
  <1>y. h \in Slots /\ thr[v].errs \in Seq(Slots)
    BY PlacesTyped DEF PlaceTypes
  <1>1. /\ thr'[v].pc = "loop" /\ thr'[v].cur = WrapInc(thr[v].cur)
        /\ thr'[v].snap = thr[v].snap /\ thr'[v].seen = thr[v].seen
        /\ thr'[v].errs = Append(thr[v].errs, h)
    BY FailFields DEF FailRequest
  <1>2. /\ CursorOf(thr'[v], queue') = c /\ HandOf(thr'[v]) = {}
        /\ HandOf(thr[v]) = {h}
    BY <1>p, <1>1 DEF CursorOf, HandOf, InLoop, OnCopy
  <1>3. InPlace(availRing, c, availIdx, {h}, thr[v].errs, usedRing, lastUsed, u, outstanding)
    BY <1>w, <1>2 DEF Placed
  <1> HIDE DEF h, c, u
  <1>4. /\ InPlace(availRing, c, availIdx, {}, Append(thr[v].errs, h), usedRing, lastUsed, u,
                   outstanding)
        /\ ToSet(Append(thr[v].errs, h)) = ToSet(thr[v].errs) \cup {h}
    <2> DEFINE e == thr[v].errs
    <2>1. /\ InPlace(availRing, c, availIdx, {h}, e, usedRing, lastUsed, u, outstanding)
          /\ e \in Seq(Slots)
      BY <1>y, <1>3
    <2> HIDE DEF e
    <2>2. InPlace(availRing, c, availIdx, {}, Append(e, h), usedRing, lastUsed, u,
                  outstanding)
      BY <1>y, <2>1, HandFailed, Zenon
    <2>3. ToSet(Append(e, h)) = ToSet(e) \cup {h}
      BY <1>y, <2>1, ErrsAppend
    <2> QED BY <2>2, <2>3 DEF e
  <1>5. Placed(v)'
    BY <1>u, <1>1, <1>2, <1>4 DEF Placed, u
  <1>6. Sees(thr[v], queue, availIdx, chain)'
    BY <1>u, <1>p, <1>1, <1>2 DEF Sees, SerialInv, InLoop, OnCopy, c
  <1>7. FullSize(queue)' /\ SetUpOK' /\ NotAhead' /\ FullSize(thr[v].snap)'
    BY <1>u, <1>w, <1>1 DEF SerialInv, SetUpOK, FullSize, NotAhead
  <1>8. Kept(v)
    <2> DEFINE rest == RingWindow(availRing, c, availIdx) \cup RingWindow(usedRing, lastUsed, u)
    <2>1. Somewhere(v) = rest \cup {h} \cup ToSet(thr[v].errs)
      BY <1>2, SomewhereIs DEF c, u
    <2>2. Somewhere(v)' = rest \cup ToSet(thr'[v].errs)
      BY <1>u, <1>2, SomewhereIs DEF u
    <2>3. Somewhere(v) = Somewhere(v)'
      BY <1>1, <1>4, <2>1, <2>2
    <2> QED BY <2>3 DEF Kept
  <1>9. Passed(v)
    <2>1. Counted' = Counted
      BY <1>u DEF Counted
    <2> QED BY <1>u, <1>2, <2>1, NonePassed DEF c
  <1> QED BY <1>5, <1>6, <1>7, <1>8, <1>9 DEF Keeps, SerialInv

\* The end of the loop, with and without anything to publish.
LEMMA LeaveStep ==
  ASSUME IInv, FreshInv, NEW v \in Vcpus, SerialInv(v),
         NothingDone(v) \/ ErrorsDone(v) \/ TriggerLast(v)
  PROVE  Keeps(v)
  <1>u. UNCHANGED <<drv, outstanding, lastUsed, irqPhase, availIdx, availRing, usedRing,
                    usedIdx, queue, chain>>
    BY DEF NothingDone, ErrorsDone, TriggerLast, mem, driver, device
  <1>1. /\ thr[v].pc \in {"loop", "errUsed", "endIrq"} /\ thr[v].errs = <<>>
        /\ thr[v].pc = "loop" => thr[v].cur = LastAvail(thr[v].snap)
    BY DEF NothingDone, LoopOver, Unprocessed, ErrorsDone, TriggerLast, At, SerialInv, Sees,
           InLoop, OnCopy
  <1>2. CursorOf(thr[v], queue) = LastAvail(queue) /\ HandOf(thr[v]) = {}
    BY <1>1 DEF CursorOf, HandOf, SerialInv, Sees, InLoop, OnCopy
  <1>3. /\ thr'[v].pc \in {"idle", "endIrq"} /\ thr'[v].errs = <<>>
        /\ FullSize(thr'[v].snap)
    <2>1. Return(v) \/ Goto(v, "endIrq")
      BY DEF NothingDone, ErrorsDone, TriggerLast
    <2>2. CASE Return(v)
      BY <2>2, ReturnFields, NewQueueFull
    <2>3. CASE Goto(v, "endIrq")
      BY <2>3, <1>1, GotoFields DEF PC, SameLocals, SerialInv
    <2> QED BY <2>1, <2>2, <2>3
  <1>4. CursorOf(thr'[v], queue) = LastAvail(queue) /\ HandOf(thr'[v]) = {}
    BY <1>3 DEF CursorOf, HandOf, InLoop, OnCopy
  <1>5. Sees(thr'[v], queue, availIdx, chain')
    BY <1>3 DEF Sees, InLoop, OnCopy
  <1> QED BY <1>u, <1>1, <1>2, <1>3, <1>4, <1>5, FrameStep

\* update_last_avail_idx: the queue's own index reaches the handler's.
LEMMA FinishStep ==
  ASSUME IInv, FreshInv, NEW v \in Vcpus, SerialInv(v), FinishLoop(v)
  PROVE  Keeps(v)
  <1> DEFINE c == thr[v].cur
  <1>t. queue \in Queue /\ c \in Idx
    BY DEF IInv, TypeOK, Thread
  <1>u. /\ UNCHANGED <<drv, outstanding, lastUsed, irqPhase, availIdx, availRing, usedRing,
                       usedIdx, chain>>
        /\ queue' = UpdateLastAvail(queue, c)
    BY DEF FinishLoop, mem, driver
  <1>p. thr[v].pc = "loop"
    BY DEF FinishLoop, LoopOver, At
  <1>w. /\ drv = "run" /\ Placed(v) /\ NotAhead /\ queue.ring["avail"] # NoRing
        /\ queue.ring["avail"].size = MaxQueueSize
    BY <1>p, AtWork DEF RingName
  <1>1. thr'[v].pc = "errUsed" /\ SameLocals(thr'[v], thr[v])
    BY GotoFields DEF FinishLoop, PC
  <1>2. /\ queue'.ring["used"] = queue.ring["used"] /\ queue'.ring["desc"] = queue.ring["desc"]
        /\ queue'.ring["avail"].idx = c /\ queue'.ring["avail"].size = MaxQueueSize
        /\ queue'.addr = queue.addr /\ queue'.size = queue.size
    BY <1>t, <1>u, <1>w DEF UpdateLastAvail, Queue, Ring, RingName
  <1>3. LastAvail(queue') = c
    BY <1>2, SizeFacts DEF LastAvail, NoRing, NewRing
  <1>4. /\ CursorOf(thr'[v], queue') = CursorOf(thr[v], queue)
        /\ HandOf(thr'[v]) = HandOf(thr[v])
    BY <1>p, <1>1, <1>3 DEF CursorOf, HandOf, InLoop, OnCopy
  <1>5. Placed(v)' /\ NotAhead' /\ Kept(v) /\ Passed(v)
    BY <1>u, <1>w, <1>1, <1>2, <1>4, Unmoved DEF SameLocals
  <1>6. Sees(thr[v], queue, availIdx, chain)'
    BY <1>1 DEF Sees, InLoop, OnCopy
  <1>7. FullSize(queue)'
    BY <1>2 DEF SerialInv, FullSize, RingName
  <1>8. SetUpOK' /\ FullSize(thr[v].snap)'
    BY <1>u, <1>w, <1>1, <1>2 DEF SerialInv, SetUpOK, SettingUp, SameLocals
  <1> QED BY <1>5, <1>6, <1>7, <1>8 DEF Keeps, SerialInv

\* add_used, first half, of a failed request.
LEMMA ErrorElementStep ==
  ASSUME IInv, FreshInv, NEW v \in Vcpus, SerialInv(v), AddUsedError(v)
  PROVE  Keeps(v)
  <1> DEFINE u == queue.ring["used"].idx
             e == thr[v].errs
             h == Head(e)
             c == CursorOf(thr[v], queue)
  <1>u. UNCHANGED <<drv, outstanding, lastUsed, irqPhase, availIdx, availRing, usedIdx,
                    queue, chain>>
    BY DEF AddUsedError, driver, device
  <1>p. thr[v].pc = "errUsed" /\ e # <<>>
    BY DEF AddUsedError, At
  <1>w. /\ drv = "run" /\ Placed(v) /\ NotAhead /\ HasAddrs(queue)
        /\ UsedSlot(queue) = u % MaxQueueSize
    BY <1>p, AtWork
  <1>y. /\ usedRing \in [Slots -> Slots] /\ lastUsed \in Idx /\ u \in Idx
        /\ e \in Seq(Slots) /\ h \in Slots
    BY <1>p, PlacesTyped, ErrsTail DEF PlaceTypes
  <1>c. c = LastAvail(queue) /\ HandOf(thr[v]) = {}
    BY <1>p DEF CursorOf, HandOf, InLoop, OnCopy
  <1>i. InPlace(availRing, c, availIdx, {}, e, usedRing, lastUsed, u, outstanding)
    BY <1>w, <1>c DEF Placed
  <1>f. FullSize(queue)' /\ SetUpOK' /\ NotAhead'
    BY <1>u, <1>w DEF SerialInv, SetUpOK, FullSize, NotAhead
  <1>1. CASE WriteUsedElem(h) /\ Goto(v, "errPublish")
    <2>1. thr'[v].pc = "errPublish" /\ SameLocals(thr'[v], thr[v])
      BY <1>1, GotoFields DEF PC
    <2>2. CursorOf(thr'[v], queue') = c /\ HandOf(thr'[v]) = {}
      BY <1>u, <1>c, <2>1 DEF CursorOf, HandOf, InLoop, OnCopy
    <2>3. usedRing' = Put(usedRing, u, h)
      BY <1>1, <1>w DEF WriteUsedElem, Put
    <2>4. h \in {} \cup ToSet(e)
      BY <1>p, <1>y, ErrsTail
    <2> HIDE DEF h, u, e, c
    <2>5. /\ InPlace(availRing, c, availIdx, {}, e, Put(usedRing, u, h), lastUsed, u,
                     outstanding)
          /\ RingWindow(Put(usedRing, u, h), lastUsed, u) = RingWindow(usedRing, lastUsed, u)
      BY <1>y, <1>i, <2>4, ElementWritten
    <2>6. Placed(v)'
      BY <1>u, <2>1, <2>2, <2>3, <2>5 DEF Placed, SameLocals, u, e
    <2>7. Somewhere(v)' = Somewhere(v)
      <3>1. RingWindow(usedRing', lastUsed', queue'.ring["used"].idx)
              = RingWindow(usedRing, lastUsed, u)
        BY <1>u, <2>3, <2>5 DEF u
      <3>2. RingWindow(availRing', CursorOf(thr'[v], queue'), availIdx')
              = RingWindow(availRing, CursorOf(thr[v], queue), availIdx)
        BY <1>u, <2>2 DEF c
      <3>3. HandOf(thr'[v]) = HandOf(thr[v]) /\ ToSet(thr'[v].errs) = ToSet(thr[v].errs)
        BY <1>c, <2>1, <2>2 DEF SameLocals
      <3> QED BY <3>1, <3>2, <3>3, SomewhereIs DEF u
    <2>8. Sees(thr[v], queue, availIdx, chain)' /\ FullSize(thr[v].snap)'
      BY <2>1 DEF Sees, SerialInv, InLoop, OnCopy, SameLocals
    <2>9. Passed(v)
      <3>1. Counted' = Counted
        BY <1>u, <2>3, <2>5 DEF Counted, u
      <3> QED BY <1>u, <2>2, <3>1, NonePassed DEF c
    <2> QED BY <1>f, <2>6, <2>7, <2>8, <2>9 DEF Keeps, Kept, SerialInv
  <1>2. CASE /\ ~IsValid(queue) \/ "usedElem" \in Faults
             /\ Become(v, NextError(thr[v]))
             /\ UNCHANGED usedRing
    <2>1. /\ thr'[v].pc = "errUsed" /\ thr'[v].snap = thr[v].snap
          /\ thr'[v].errs = Tail(e)
      BY <1>2, ErrorFields
    <2>2. CursorOf(thr'[v], queue') = c /\ HandOf(thr'[v]) = {}
      BY <1>u, <1>c, <2>1 DEF CursorOf, HandOf, InLoop, OnCopy
    <2>3. "usedElem" \in Faults \/ ~queue.ready
      BY <1>2, <1>w DEF IsValid
    <2>4. Kept(v)
      BY <1>p, <2>1, <2>3 DEF Kept, GivesUp, At
    <2>8. Passed(v)
      <3>1. Counted' = Counted
        BY <1>u, <1>2 DEF Counted
      <3> QED BY <1>u, <2>2, <3>1, NonePassed
    <2> HIDE DEF c, u, e
    <2>5. InPlace(availRing, c, availIdx, {}, Tail(e), usedRing, lastUsed, u, outstanding)
      BY <1>p, <1>y, <1>i, ErrorDropped
    <2>6. Placed(v)'
      BY <1>2, <1>u, <2>1, <2>2, <2>5 DEF Placed, u
    <2>7. Sees(thr[v], queue, availIdx, chain)' /\ FullSize(thr[v].snap)'
      BY <2>1 DEF Sees, SerialInv, InLoop, OnCopy
    <2> QED BY <1>f, <2>4, <2>6, <2>7, <2>8 DEF Keeps, SerialInv
  <1> QED BY <1>1, <1>2 DEF AddUsedError

\* add_used, second half, of a failed request.
LEMMA PublishErrorStep ==
  ASSUME IInv, FreshInv, PublishesOwnElement, NEW v \in Vcpus, SerialInv(v), PublishError(v)
  PROVE  /\ Keeps(v)
         /\ Placed(v) /\ drv = "run" /\ outstanding' = outstanding /\ lastUsed' = lastUsed
         /\ thr[v].errs # <<>>
         /\ Counted' = Counted \cup {Head(thr[v].errs)}
         /\ Head(thr[v].errs) \notin Counted
  <1> DEFINE u == queue.ring["used"].idx
             e == thr[v].errs
             h == Head(e)
             c == CursorOf(thr[v], queue)
  <1>u. /\ UNCHANGED <<drv, outstanding, lastUsed, irqPhase, availIdx, availRing, usedRing,
                       chain>>
        /\ PublishUsedIdx \/ CountUnpublished
    BY DEF PublishError, driver
  <1>p. thr[v].pc = "errPublish" /\ e # <<>>
    BY DEF PublishError, At, IInv, HandlersOK
  <1>w. /\ drv = "run" /\ Placed(v) /\ NotAhead /\ HasAddrs(queue)
        /\ UsedSlot(queue) = u % MaxQueueSize
    BY <1>p, AtWork
  <1>y. /\ usedRing \in [Slots -> Slots] /\ lastUsed \in Idx /\ u \in Idx
        /\ e \in Seq(Slots) /\ h \in Slots
    BY <1>p, PlacesTyped, ErrsTail DEF PlaceTypes
  <1>h. /\ usedRing[u % MaxQueueSize] = h
        /\ c = LastAvail(queue) /\ HandOf(thr[v]) = {}
    BY <1>p, <1>w DEF CursorOf, HandOf, InLoop, OnCopy, PublishesOwnElement, At
  <1>i. InPlace(availRing, c, availIdx, {}, e, usedRing, lastUsed, u, outstanding)
    BY <1>w, <1>h DEF Placed
  <1>s. h \in ToSet(e)
    BY <1>p, <1>y, ErrsTail
  <1>1. /\ thr'[v].pc = "errUsed" /\ thr'[v].snap = thr[v].snap
        /\ thr'[v].errs = Tail(e)
    BY ErrorFields DEF PublishError
  <1>d. Dist(lastUsed, u) < MaxQueueSize /\ h \notin RingWindow(usedRing, lastUsed, u)
    BY <1>i, <1>y, <1>s, WindowRoom DEF InPlace, Apart
  <1>4. /\ queue'.ring["used"].idx = WrapInc(u) /\ queue'.addr = queue.addr
        /\ LastAvail(queue') = LastAvail(queue) /\ FullSize(queue') /\ NotAhead'
    BY <1>u, <1>w, <1>d, IndexMoves
  <1>5. CursorOf(thr'[v], queue') = c /\ HandOf(thr'[v]) = {}
    BY <1>h, <1>1, <1>4 DEF CursorOf, HandOf, InLoop, OnCopy
  <1> HIDE DEF h, u, e, c
  <1>6. /\ InPlace(availRing, c, availIdx, {}, Tail(e), usedRing, lastUsed, WrapInc(u),
                   outstanding)
        /\ RingWindow(usedRing, lastUsed, WrapInc(u)) = RingWindow(usedRing, lastUsed, u) \cup {h}
        /\ ToSet(e) = ToSet(Tail(e)) \cup {h}
    <2> DEFINE rest == Tail(e)
    <2>1. usedRing[u % MaxQueueSize] = h /\ h = Head(e) /\ rest = Tail(e)
      BY <1>h DEF h
    <2> HIDE DEF rest
    <2>2. /\ InPlace(availRing, c, availIdx, {}, rest, usedRing, lastUsed, WrapInc(u),
                     outstanding)
          /\ RingWindow(usedRing, lastUsed, WrapInc(u))
               = RingWindow(usedRing, lastUsed, u) \cup {h}
          /\ ToSet(e) = ToSet(rest) \cup {h}
      <3>1. Splits(e, h, rest)
        BY <1>i, <1>p, <1>y, <2>1, ErrsTail DEF InPlace, Splits
      <3>2. /\ InPlace(availRing, c, availIdx, {}, rest, usedRing, lastUsed, WrapInc(u),
                       outstanding)
            /\ RingWindow(usedRing, lastUsed, WrapInc(u))
                 = RingWindow(usedRing, lastUsed, u) \cup {h}
        <4> DEFINE none == {}
        <4>1. InPlace(availRing, c, availIdx, none, e, usedRing, lastUsed, u, outstanding)
          BY <1>i
        <4>2. lastUsed \in Idx /\ u \in Idx /\ usedRing \in [Slots -> Slots] /\ h \in Slots
          BY <1>y
        <4>3. usedRing[u % MaxQueueSize] = h
          BY <2>1
        <4> HIDE DEF none
        <4>4. /\ InPlace(availRing, c, availIdx, none, rest, usedRing, lastUsed, WrapInc(u),
                         outstanding)
              /\ RingWindow(usedRing, lastUsed, WrapInc(u))
                   = RingWindow(usedRing, lastUsed, u) \cup {h}
          BY <4>1, <4>2, <4>3, <3>1, ErrorCounted
        <4> QED BY <4>4 DEF none
      <3> QED BY <3>1, <3>2 DEF Splits
    <2> QED BY <2>2 DEF rest
  <1>7. Placed(v)'
    BY <1>u, <1>1, <1>4, <1>5, <1>6 DEF Placed
  <1>8. Sees(thr[v], queue, availIdx, chain)' /\ FullSize(thr[v].snap)'
    BY <1>1 DEF Sees, SerialInv, InLoop, OnCopy
  <1>9. SetUpOK'
    BY <1>u, <1>w, <1>4 DEF SerialInv, SetUpOK, SettingUp
  <1>10. Counted' = Counted \cup {h} /\ h \notin Counted
    BY <1>u, <1>d, <1>4, <1>6 DEF Counted, u
  <1>11. Kept(v)
    <2> DEFINE W == RingWindow(availRing, c, availIdx)
    <2>1. Somewhere(v) = W \cup {} \cup ToSet(e) \cup RingWindow(usedRing, lastUsed, u)
      BY <1>h, SomewhereIs DEF c, u, e
    <2>2. Somewhere(v)'
            = W \cup {} \cup ToSet(Tail(e)) \cup RingWindow(usedRing, lastUsed, WrapInc(u))
      BY <1>u, <1>1, <1>4, <1>5, SomewhereIs
    <2>3. Somewhere(v) \subseteq Somewhere(v)'
      BY <1>6, <2>1, <2>2
    <2> QED BY <2>3 DEF Kept
  <1>12. Passed(v)
    BY <1>u, <1>5, NonePassed DEF c
  <1> QED BY <1>u, <1>p, <1>w, <1>4, <1>7, <1>8, <1>9, <1>10, <1>11, <1>12
      DEF Keeps, SerialInv, h, e

----------------------------------------------------------------------------
(* Steps of the driver and of a reset. *)

\* A write of an address sets that address, and neither a size nor an index.
LEMMA SetAddrFields ==
  ASSUME NEW q \in Queue, FullSize(q), NEW r \in RingName, NEW a \in Addr \ {NullAddr}
  PROVE  LET p == SetRingAddr(q, r, a)
         IN  /\ FullSize(p)
             /\ p.addr[r] # NullAddr
             /\ \A s \in RingName : q.addr[s] # NullAddr => p.addr[s] # NullAddr
             /\ q.ring["used"].idx = 0 => p.ring["used"].idx = 0
  <1>1. CASE q.addr[r] # NullAddr
    BY <1>1 DEF SetRingAddr
  <1>2. CASE q.addr[r] = NullAddr
    <2> DEFINE p == SetRingAddr(q, r, a)
    <2>1. /\ p.addr = [q.addr EXCEPT ![r] = a] /\ p.size = q.size
          /\ p.ring = [q.ring EXCEPT ![r] = NewRing(a, q.size)]
      BY <1>2 DEF SetRingAddr, Queue
    <2>2. q.addr \in [RingName -> Addr] /\ q.ring \in [RingName -> Ring]
      BY DEF Queue
    <2>3. NewRing(a, q.size).size = MaxQueueSize /\ NewRing(a, q.size).idx = 0
      BY DEF NewRing, FullSize
    <2> HIDE DEF p
    <2>4. FullSize(p)
      BY <2>1, <2>2, <2>3 DEF FullSize
    <2>5. q.ring["used"].idx = 0 => p.ring["used"].idx = 0
      BY <2>1, <2>2, <2>3 DEF RingName
    <2>6. p.addr[r] # NullAddr /\ \A s \in RingName : q.addr[s] # NullAddr => p.addr[s] # NullAddr
      BY <2>1, <2>2
    <2> QED BY <2>4, <2>5, <2>6 DEF p
  <1> QED BY <1>1, <1>2

\* QUEUE_READY written while the device is running: the rings are left alone.
LEMMA PauseStep ==
  ASSUME IInv, NEW v \in Vcpus, SerialInv(v), drv = "run", Setup
  PROVE  Keeps(v)
  <1>t. queue \in Queue /\ queue.ready \in BOOLEAN
    BY DEF IInv, TypeOK, Queue
  <1>1. /\ UNCHANGED <<drv, outstanding, lastUsed, irqPhase, availIdx, availRing, usedRing,
                       usedIdx, thr, chain>>
        /\ queue' = SetReady(queue, ~queue.ready)
    BY DEF Setup, InitRings, WriteQueueReady, WriteDriverOk, WriteRingAddr, mem, RingName
  <1>2. /\ queue'.ring = queue.ring /\ queue'.addr = queue.addr /\ queue'.size = queue.size
        /\ queue'.nextAvail = queue.nextAvail
    BY <1>t, <1>1 DEF SetReady, Queue
  <1>3. LastAvail(queue') = LastAvail(queue)
    BY <1>2 DEF LastAvail
  <1>4. CursorOf(thr'[v], queue') = CursorOf(thr[v], queue)
    BY <1>1, <1>3 DEF CursorOf
  <1>5. Placed(v)' /\ NotAhead' /\ Kept(v) /\ Passed(v)
    BY <1>1, <1>2, <1>4, Unmoved DEF SerialInv
  <1>6. Sees(thr[v], queue, availIdx, chain)'
    BY <1>1, <1>3, <1>4 DEF SerialInv, Sees
  <1>7. FullSize(queue)' /\ FullSize(thr[v].snap)' /\ SetUpOK'
    BY <1>1, <1>2 DEF SerialInv, FullSize, SetUpOK, SettingUp
  <1> QED BY <1>5, <1>6, <1>7 DEF Keeps, SerialInv

\* Setting up: when the driver is done, both rings are empty.
LEMMA SetupStep ==
  ASSUME IInv, FreshInv, NEW v \in Vcpus, SerialInv(v), drv # "run", Setup
  PROVE  Keeps(v)
  <1>t. queue \in Queue /\ FullSize(queue)
    BY DEF IInv, TypeOK, SerialInv
  <1>p. drv \in SettingUp
    BY DEF Setup, InitRings, WriteQueueReady, WriteDriverOk, WriteRingAddr, SettingUp, RingName
  <1>h. /\ UNCHANGED <<thr, chain>>
        /\ outstanding = {} /\ outstanding' = {} /\ irqPhase' = "wait"
    BY DEF SerialInv, SetUpOK, Setup, InitRings, WriteQueueReady, WriteDriverOk, WriteRingAddr,
           mem
  <1>i. thr[v].pc \in {"idle", "ready"} /\ thr[v].errs = <<>>
    BY <1>p DEF FreshInv, SerialInv, Sees, InLoop, OnCopy
  <1>x. Passed(v)
    BY DEF Passed
  <1>a. /\ drv \in {"avail", "used", "ready", "ok"} => queue.addr["desc"] # NullAddr
        /\ drv \in {"used", "ready", "ok"} => queue.addr["avail"] # NullAddr
        /\ queue.ring["used"].idx = 0
        /\ drv # "init" => availIdx = 0 /\ lastUsed = 0 /\ usedIdx = 0
    BY <1>p DEF SerialInv, SetUpOK, FreshInv
  <1>1. Sees(thr[v], queue, availIdx, chain)' /\ FullSize(thr[v].snap)'
    BY <1>h, <1>i DEF Sees, SerialInv, InLoop, OnCopy
  <1>2. CASE InitRings
    <2>1. FullSize(queue)' /\ SetUpOK' /\ drv' = "desc"
      BY <1>2, <1>t, <1>h, <1>a DEF InitRings, device, SetUpOK, FullSize, SettingUp
    <2>2. Kept(v)
      BY <1>h DEF Kept
    <2> QED BY <1>1, <1>x, <2>1, <2>2 DEF Keeps, SerialInv
  <1>3. ASSUME NEW r \in RingName, WriteRingAddr(r)
        PROVE  Keeps(v)
    <2>1. RingBase[r] \in Addr \ {NullAddr}
      BY DeviceAssumption
    <2>2. /\ FullSize(queue') /\ queue'.addr[r] # NullAddr /\ queue'.ring["used"].idx = 0
          /\ \A s \in RingName : queue.addr[s] # NullAddr => queue'.addr[s] # NullAddr
      BY <1>3, <1>t, <1>a, <2>1, SetAddrFields DEF WriteRingAddr
    <2>3. /\ drv = r /\ availIdx' = availIdx /\ lastUsed' = lastUsed
          /\ drv' = CASE r = "desc" -> "avail" [] r = "avail" -> "used" [] OTHER -> "ready"
      BY <1>3 DEF WriteRingAddr, mem
    <2>4. SetUpOK' /\ drv' # "run"
      BY <1>h, <1>a, <2>2, <2>3 DEF SetUpOK, RingName, SettingUp
    <2>5. FullSize(queue)' /\ Kept(v)
      BY <1>h, <2>2 DEF Kept
    <2> QED BY <1>1, <1>x, <2>4, <2>5 DEF Keeps, SerialInv
  <1>4. CASE WriteQueueReady
    <2>1. /\ queue' = SetReady(queue, TRUE) /\ drv = "ready" /\ drv' = "ok"
          /\ availIdx' = availIdx /\ lastUsed' = lastUsed
      BY <1>4 DEF WriteQueueReady, mem
    <2>2. queue'.ring = queue.ring /\ queue'.addr = queue.addr /\ queue'.size = queue.size
      BY <1>t, <2>1 DEF SetReady, Queue
    <2>3. FullSize(queue)' /\ SetUpOK' /\ Kept(v)
      BY <1>t, <1>h, <1>a, <2>1, <2>2 DEF FullSize, SetUpOK, SettingUp, Kept
    <2> QED BY <1>1, <1>x, <2>1, <2>3 DEF Keeps, SerialInv
  <1>5. CASE WriteDriverOk
    <2>1. /\ drv = "ok" /\ drv' = "run"
          /\ UNCHANGED <<queue, availIdx, availRing, usedIdx, usedRing, lastUsed>>
      BY <1>5 DEF WriteDriverOk, mem
    <2>2. FullSize(queue)' /\ SetUpOK' /\ Kept(v)
      BY <1>t, <1>h, <1>a, <2>1 DEF FullSize, SetUpOK, SettingUp, Kept
    <2>3. CursorOf(thr'[v], queue') = 0 /\ HandOf(thr'[v]) = {} /\ thr'[v].errs = <<>>
      <3>1. LastAvail(queue) = 0
        BY <1>p DEF FreshInv, LastAvail
      <3> QED BY <1>h, <1>i, <2>1, <3>1 DEF CursorOf, HandOf, InLoop, OnCopy
    <2>4. InPlace(availRing, 0, 0, {}, <<>>, usedRing, 0, 0, {})
      BY ZeroType, EmptyWindow, ErrsEmpty DEF InPlace, Apart
    <2>5. Placed(v)'
      BY <1>h, <1>a, <2>1, <2>3, <2>4 DEF Placed
    <2>6. NotAhead'
      BY <1>a, <2>1, ZeroType, EmptyWindow DEF NotAhead
    <2> QED BY <1>1, <1>x, <2>2, <2>5, <2>6 DEF Keeps, SerialInv
  <1> QED BY <1>2, <1>3, <1>4, <1>5 DEF Setup

\* A reset gives everything up.
LEMMA ResetStep ==
  ASSUME IInv, FreshInv, NEW v \in Vcpus, SerialInv(v),
         ResetBegin(v) \/ ResetRegisters(v) \/ ResetQueues(v)
  PROVE  Keeps(v)
  <1>t. queue \in Queue /\ FullSize(queue)
    BY DEF IInv, TypeOK, SerialInv
  <1>1. /\ drv' \in {"reset", "init"} /\ outstanding' = {} /\ irqPhase' = "wait"
        /\ drv' = "init" => queue' = ResetQueue(queue)
        /\ drv' = "reset" => queue' = queue
    <2>1. ResetRegisters(v) \/ ResetQueues(v) => drv = "reset"
      BY DEF ResetRegisters, ResetQueues, At, IInv, PhasesOK
    <2>2. drv = "reset" => outstanding = {} /\ irqPhase = "wait"
      BY DEF SerialInv, SetUpOK
    <2> QED BY <2>1, <2>2 DEF ResetBegin, ResetRegisters, ResetQueues, driver
  <1>2. thr[v].errs = <<>>
    BY DEF ResetBegin, ResetRegisters, ResetQueues, At, SerialInv, Sees, InLoop, OnCopy
  <1>3. /\ thr'[v].pc \in {"idle", "rstIrq", "rstQueue"} /\ thr'[v].errs = <<>>
        /\ FullSize(thr'[v].snap)
    <2>1. Return(v) \/ Goto(v, "rstIrq") \/ Goto(v, "rstQueue")
      BY DEF ResetBegin, ResetRegisters, ResetQueues
    <2>2. CASE Return(v)
      BY <2>2, ReturnFields, NewQueueFull
    <2>3. CASE Goto(v, "rstIrq") \/ Goto(v, "rstQueue")
      BY <2>3, <1>2, GotoFields DEF PC, SameLocals, SerialInv
    <2> QED BY <2>1, <2>2, <2>3
  <1>4. Sees(thr[v], queue, availIdx, chain)'
    BY <1>3 DEF Sees, InLoop, OnCopy
  <1>5. FullSize(ResetQueue(queue)) /\ ResetQueue(queue).ring["used"].idx = 0
    BY <1>t DEF ResetQueue, NewQueue, FullSize, NoRing, NewRing, Queue, RingName
  <1>6. FullSize(queue)' /\ SetUpOK' /\ Kept(v)
    BY <1>t, <1>1, <1>5 DEF SetUpOK, SettingUp, Kept
  <1>7. Passed(v)
    BY <1>1 DEF Passed
  <1> QED BY <1>1, <1>3, <1>4, <1>6, <1>7 DEF Keeps, SerialInv

\* A new request waits on the available ring.
LEMMA PostStep ==
  ASSUME IInv, FreshInv, NEW v \in Vcpus, SerialInv(v),
         NEW h \in Heads, NEW k \in Kinds, Post(h, k)
  PROVE  Keeps(v)
  <1> DEFINE c == CursorOf(thr[v], queue)
             u == queue.ring["used"].idx
  <1>t. chain \in [Slots -> Kind] /\ h \in Slots
    BY DeviceAssumption DEF IInv, TypeOK
  <1>y. PlaceTypes(v)
    BY PlacesTyped
  <1>u. /\ UNCHANGED <<drv, lastUsed, irqPhase, usedRing, usedIdx, queue, thr>>
        /\ drv = "run" /\ h \notin outstanding /\ outstanding' = outstanding \cup {h}
        /\ chain' = [chain EXCEPT ![h] = k]
        /\ availIdx' = WrapInc(availIdx)
    BY DEF Post, device
  <1>r. availRing' = Put(availRing, availIdx, h)
    BY DEF Post, Put
  <1>w. Placed(v) /\ NotAhead
    BY <1>u DEF SerialInv
  <1> HIDE DEF c, u
  <1>1. InPlace(availRing, c, availIdx, HandOf(thr[v]), thr[v].errs, usedRing, lastUsed, u,
                outstanding)
    BY <1>w DEF Placed, c, u
  <1>2. /\ c \in Idx /\ availIdx \in Idx /\ availRing \in [Slots -> Slots]
        /\ thr[v].seen \in Idx
    BY <1>y DEF PlaceTypes, c
  <1>3. /\ InPlace(availRing', c, availIdx', HandOf(thr[v]), thr[v].errs, usedRing, lastUsed,
                   u, outstanding')
        /\ RingWindow(availRing', c, availIdx') = RingWindow(availRing, c, availIdx) \cup {h}
        /\ Dist(c, availIdx') = Dist(c, availIdx) + 1
    <2> DEFINE new == Put(availRing, availIdx, h)
               out == outstanding \cup {h}
    <2>1. /\ InPlace(new, c, WrapInc(availIdx), HandOf(thr[v]), thr[v].errs, usedRing,
                     lastUsed, u, out)
          /\ RingWindow(new, c, WrapInc(availIdx)) = RingWindow(availRing, c, availIdx) \cup {h}
          /\ Dist(c, WrapInc(availIdx)) = Dist(c, availIdx) + 1
      <3>1. h \notin outstanding
        BY <1>u
      <3> QED BY <1>t, <1>1, <1>2, <3>1, HeadPosted
    <2>2. availRing' = new /\ outstanding' = out /\ availIdx' = WrapInc(availIdx)
      BY <1>u, <1>r
    <2> HIDE DEF new, out
    <2> QED BY <2>1, <2>2
  <1>4. Placed(v)'
    BY <1>u, <1>3 DEF Placed, c, u
  <1>5. Kept(v)
    <2>1. Somewhere(v) \subseteq Somewhere(v)'
      <3> DEFINE rest == HandOf(thr[v]) \cup ToSet(thr[v].errs)
                           \cup RingWindow(usedRing, lastUsed, u)
      <3>1. Somewhere(v) = RingWindow(availRing, c, availIdx) \cup rest
        BY SomewhereIs DEF c, u
      <3>2. Somewhere(v)' = RingWindow(availRing', c, availIdx') \cup rest
        BY <1>u, SomewhereIs DEF c, u
      <3> QED BY <1>3, <3>1, <3>2
    <2> QED BY <2>1 DEF Kept
  <1>6. Sees(thr[v], queue, availIdx, chain)'
    <2>1. thr[v].pc \in {"fail", "exec", "status", "used", "publish"}
            => chain'[thr[v].desc] = chain[thr[v].desc]
      <3>1. ASSUME thr[v].pc \in {"fail", "exec", "status", "used", "publish"}
            PROVE  thr[v].desc # h
        BY <1>u, <1>1, <3>1 DEF InPlace, HandOf
      <3> QED BY <1>t, <1>u, <1>y, <3>1 DEF PlaceTypes
    <2>2. thr[v].pc \in InLoop => Dist(c, thr[v].seen) <= Dist(c, availIdx')
      <3>1. Dist(c, thr[v].seen) \in Nat /\ Dist(c, availIdx) \in Nat
        BY <1>2, DistCases
      <3>2. thr[v].pc \in InLoop => Dist(c, thr[v].seen) <= Dist(c, availIdx)
        BY DEF SerialInv, Sees, c
      <3> QED BY <1>3, <3>1, <3>2
    <2> QED BY <1>u, <2>1, <2>2 DEF Sees, SerialInv, c
  <1>7. FullSize(queue)' /\ SetUpOK' /\ NotAhead' /\ FullSize(thr[v].snap)'
    BY <1>u, <1>w DEF SerialInv, SetUpOK, FullSize, NotAhead, SettingUp
  <1>8. Passed(v)
    <2>1. Counted' = Counted
      BY <1>u DEF Counted
    <2>2. Waiting(v)' = Waiting(v) \cup {h}
      BY <1>u, <1>3, WaitingIs DEF c
    <2> QED BY <1>u, <2>1, <2>2 DEF Passed
  <1> QED BY <1>4, <1>5, <1>6, <1>7, <1>8 DEF Keeps, SerialInv

\* The driver reaps.
LEMMA ReapStep ==
  ASSUME IInv, FreshInv, NEW v \in Vcpus, SerialInv(v), Reap
  PROVE  /\ Keeps(v)
         /\ drv = "run" /\ Placed(v)
         /\ LET h == usedRing[lastUsed % MaxQueueSize]
            IN  /\ outstanding' = outstanding \ {h}
                /\ Counted = Counted' \cup {h} /\ h \notin Counted'
  <1> DEFINE c == CursorOf(thr[v], queue)
             u == queue.ring["used"].idx
             h == usedRing[lastUsed % MaxQueueSize]
  <1>y. PlaceTypes(v)
    BY PlacesTyped
  <1>u. /\ UNCHANGED <<drv, irqPhase, availIdx, availRing, usedRing, usedIdx, queue, thr, chain>>
        /\ lastUsed # usedIdx /\ lastUsed' = WrapInc(lastUsed)
        /\ outstanding' = outstanding \ {h}
    BY DEF Reap, mem, device
  <1>w. drv = "run" /\ Placed(v) /\ NotAhead
    BY DEF Reap, SerialInv, SetUpOK
  <1>t. /\ lastUsed \in Idx /\ u \in Idx /\ usedIdx \in Idx /\ usedRing \in [Slots -> Slots]
    BY <1>y DEF PlaceTypes
  <1> HIDE DEF c, u, h
  <1>1. InPlace(availRing, c, availIdx, HandOf(thr[v]), thr[v].errs, usedRing, lastUsed, u,
                outstanding)
    BY <1>w DEF Placed, c, u
  <1>2. lastUsed # u /\ Dist(WrapInc(lastUsed), usedIdx) <= Dist(WrapInc(lastUsed), u)
    BY <1>t, <1>u, <1>w, SeenAfter DEF NotAhead, u
  <1>3. /\ InPlace(availRing, c, availIdx, HandOf(thr[v]), thr[v].errs, usedRing,
                   WrapInc(lastUsed), u, outstanding \ {h})
        /\ RingWindow(usedRing, lastUsed, u) = RingWindow(usedRing, WrapInc(lastUsed), u) \cup {h}
        /\ h \notin RingWindow(usedRing, WrapInc(lastUsed), u)
    BY <1>t, <1>1, <1>2, HeadReaped DEF h
  <1>4. Placed(v)'
    BY <1>u, <1>3 DEF Placed, c, u
  <1>5. Counted = Counted' \cup {h} /\ h \notin Counted'
    BY <1>u, <1>3 DEF Counted, u
  <1>6. Kept(v)
    <2> DEFINE rest == RingWindow(availRing, c, availIdx) \cup HandOf(thr[v])
                         \cup ToSet(thr[v].errs)
    <2>1. Somewhere(v) = rest \cup RingWindow(usedRing, lastUsed, u)
      BY SomewhereIs DEF c, u
    <2>2. Somewhere(v)' = rest \cup RingWindow(usedRing, WrapInc(lastUsed), u)
      BY <1>u, SomewhereIs DEF c, u
    <2>3. Somewhere(v) \ Somewhere(v)' \subseteq {h}
      BY <1>3, <2>1, <2>2
    <2> QED BY <1>u, <2>3 DEF Kept
  <1>7. FullSize(queue)' /\ SetUpOK' /\ NotAhead' /\ FullSize(thr[v].snap)'
    BY <1>u, <1>w, <1>2 DEF SerialInv, SetUpOK, FullSize, NotAhead, SettingUp, u
  <1>8. Sees(thr[v], queue, availIdx, chain)'
    BY <1>u DEF SerialInv, Sees
  <1>9. Passed(v)
    BY <1>u, NonePassed
  <1> QED BY <1>u, <1>w, <1>4, <1>5, <1>6, <1>7, <1>8, <1>9 DEF Keeps, SerialInv, h

\* The interrupt handler of the driver starts and stops, or nothing happens.
LEMMA WatchStep ==
  ASSUME IInv, NEW v \in Vcpus, SerialInv(v), AckInterrupt \/ ScanDone \/ UNCHANGED vars
  PROVE  Keeps(v)
  <1>1. /\ UNCHANGED <<drv, outstanding, lastUsed, availIdx, availRing, usedRing, usedIdx,
                       queue, thr, chain>>
        /\ drv # "run" => irqPhase' = "wait"
    BY DEF AckInterrupt, ScanDone, vars, mem, driver, device, SerialInv, SetUpOK
  <1>2. /\ CursorOf(thr'[v], queue') = CursorOf(thr[v], queue)
        /\ HandOf(thr'[v]) = HandOf(thr[v])
    BY <1>1
  <1>3. (drv = "run" => Placed(v)' /\ NotAhead') /\ Kept(v) /\ Passed(v)
    BY <1>1, <1>2, Unmoved DEF SerialInv
  <1>4. Sees(thr[v], queue, availIdx, chain)'
    BY <1>1 DEF SerialInv
  <1>5. FullSize(queue)' /\ FullSize(thr[v].snap)' /\ SetUpOK'
    BY <1>1 DEF SerialInv, SetUpOK
  <1> QED BY <1>1, <1>3, <1>4, <1>5 DEF Keeps, SerialInv

----------------------------------------------------------------------------
(* Every step. *)

LEMMA SerialStep ==
  ASSUME IInv, FreshInv, PublishesOwnElement, NEW v, Vcpus = {v}, SerialInv(v), [Next]_vars
  PROVE  Keeps(v)
  <1>v. v \in Vcpus
    OBVIOUS
  <1>1. CASE Setup
    BY <1>1, <1>v, PauseStep, SetupStep
  <1>2. ASSUME NEW h \in Heads, NEW k \in Kinds, Post(h, k)
        PROVE  Keeps(v)
    BY <1>2, <1>v, PostStep
  <1>3. CASE Reap
    BY <1>3, <1>v, ReapStep
  <1>4. CASE AckInterrupt \/ ScanDone \/ UNCHANGED vars
    BY <1>4, <1>v, WatchStep
  <1>5. CASE Notify(v) \/ CheckReady(v) \/ CloneQueue(v) \/ ReadAvailIdx(v)
    BY <1>5, <1>v, EnterStep
  <1>6. CASE ReadAvailEntry(v)
    BY <1>6, <1>v, TakeStep
  <1>7. CASE ParseRequest(v) \/ Execute(v) \/ WriteStatus(v) \/ TriggerInterrupt(v)
    BY <1>7, <1>v, RequestStep
  <1>8. CASE AddUsed(v)
    BY <1>8, <1>v, ElementStep
  <1>9. CASE Publish(v)
    BY <1>9, <1>v, PublishStep
  <1>10. CASE FailRequest(v)
    BY <1>10, <1>v, FailStep
  <1>11. CASE NothingDone(v) \/ ErrorsDone(v) \/ TriggerLast(v)
    BY <1>11, <1>v, LeaveStep
  <1>12. CASE FinishLoop(v)
    BY <1>12, <1>v, FinishStep
  <1>13. CASE AddUsedError(v)
    BY <1>13, <1>v, ErrorElementStep
  <1>14. CASE PublishError(v)
    BY <1>14, <1>v, PublishErrorStep
  <1>15. CASE ResetBegin(v) \/ ResetRegisters(v) \/ ResetQueues(v)
    BY <1>15, <1>v, ResetStep
  <1>16. Setup \/ (\E h \in Heads, k \in Kinds : Post(h, k)) \/ AckInterrupt \/ Reap \/ ScanDone
         \/ UNCHANGED vars \/ Notify(v) \/ Handler(v) \/ ResetBegin(v)
    BY DEF Next
  <1> QED BY <1>1, <1>2, <1>3, <1>4, <1>5, <1>6, <1>7, <1>8, <1>9, <1>10, <1>11, <1>12, <1>13,
             <1>14, <1>15, <1>16
      DEF Handler

LEMMA SerialStart ==
  ASSUME NEW v, Vcpus = {v}, Init
  PROVE  FreshInv /\ SerialInv(v)
  <1>1. FreshInv
    BY DEF Init, FreshInv, NewQueue, NoRing, NewRing, IdleThread, SettingUp, RingName, At
  <1>2. FullSize(queue) /\ FullSize(thr[v].snap) /\ queue.ring["used"].idx = 0
    BY NewQueueFull DEF Init, IdleThread, NewQueue, NoRing, NewRing, RingName
  <1>3. thr[v].pc = "idle" /\ thr[v].errs = <<>>
    BY DEF Init, IdleThread
  <1>4. Sees(thr[v], queue, availIdx, chain)
    BY <1>3 DEF Sees, InLoop, OnCopy
  <1>5. SetUpOK /\ drv # "run"
    BY <1>2 DEF Init, SetUpOK, SettingUp
  <1> QED BY <1>1, <1>2, <1>4, <1>5 DEF SerialInv

----------------------------------------------------------------------------
(* The invariant and what follows from it. *)

\* With one vCPU at a time inside the device every request is where the invariant says,
\* whichever memory accesses fail and whenever the driver stops or resets the queue
\* (process_queue_requests, add_used_buffer, reset_device).
THEOREM Serial ==
  ASSUME NEW v, Vcpus = {v}
  PROVE  Spec => [](FreshInv /\ SerialInv(v))
  <1>1. Init => FreshInv /\ SerialInv(v)
    BY SerialStart
  <1>2. IInv /\ PublishesOwnElement /\ FreshInv /\ SerialInv(v) /\ [Next]_vars
          => FreshInv' /\ SerialInv(v)'
    <2> SUFFICES ASSUME IInv, PublishesOwnElement, FreshInv, SerialInv(v), [Next]_vars
                 PROVE  FreshInv' /\ SerialInv(v)'
      OBVIOUS
    <2>1. FreshInv'
      BY FreshStep
    <2>2. SerialInv(v)'
      BY SerialStep DEF Keeps
    <2> QED BY <2>1, <2>2
  <1> QED BY <1>1, <1>2, Inductive, OwnElement, PTL DEF Spec

\* The size of four sets that share nothing.
LEMMA ApartSize ==
  ASSUME NEW W, NEW H, NEW E, NEW C, Apart(W, H, E, C),
         IsFiniteSet(W), IsFiniteSet(H), IsFiniteSet(E), IsFiniteSet(C)
  PROVE  Cardinality(W \cup H \cup E \cup C)
           = Cardinality(W) + Cardinality(H) + Cardinality(E) + Cardinality(C)
  <1> DEFINE WH == W \cup H
             WHE == WH \cup E
  <1>0. /\ Cardinality(W) \in Nat /\ Cardinality(H) \in Nat
        /\ Cardinality(E) \in Nat /\ Cardinality(C) \in Nat
    BY FS_CardinalityType
  <1>1. W \cap H = {} /\ WH \cap E = {} /\ WHE \cap C = {} /\ Cardinality({}) = 0
    BY FS_EmptySet DEF Apart
  <1>2. IsFiniteSet(WH) /\ Cardinality(WH) = Cardinality(W) + Cardinality(H)
    <2>1. /\ IsFiniteSet(WH)
          /\ Cardinality(WH) = Cardinality(W) + Cardinality(H) - Cardinality(W \cap H)
      BY FS_Union
    <2>2. Cardinality(W \cap H) = 0
      BY <1>1, Zenon
    <2> QED BY <1>0, <2>1, <2>2
  <1> HIDE DEF WH
  <1>3. IsFiniteSet(WHE) /\ Cardinality(WHE) = Cardinality(W) + Cardinality(H) + Cardinality(E)
    <2>1. /\ IsFiniteSet(WHE)
          /\ Cardinality(WHE) = Cardinality(WH) + Cardinality(E) - Cardinality(WH \cap E)
      BY <1>2, FS_Union
    <2>2. Cardinality(WH \cap E) = 0
      BY <1>1, Zenon
    <2> QED BY <1>0, <1>2, <2>1, <2>2
  <1> HIDE DEF WHE
  <1>4. Cardinality(WHE \cup C) = Cardinality(WHE) + Cardinality(C)
    <2>1. Cardinality(WHE \cup C)
            = Cardinality(WHE) + Cardinality(C) - Cardinality(WHE \cap C)
      BY <1>3, FS_Union
    <2>2. Cardinality(WHE \cap C) = 0
      BY <1>1, Zenon
    <2> QED BY <1>0, <1>3, <2>1, <2>2
  <1> QED BY <1>3, <1>4 DEF WHE, WH

\* No request is lost from sight or handled twice: each that is anywhere is outstanding
\* and in one place, whatever fails (process_queue_requests, VirtioQueue::add_used).
THEOREM Conservation ==
  ASSUME NEW v, Vcpus = {v}
  PROVE  Spec => []RequestConservation
  <1>1. IInv /\ FreshInv /\ SerialInv(v) => RequestConservation
    <2> SUFFICES ASSUME IInv, FreshInv, SerialInv(v), drv = "run"
                 PROVE  /\ Somewhere(v) \subseteq outstanding
                        /\ Dist(Cursor(v), availIdx) + Cardinality(InHand(v))
                             + Len(thr[v].errs) + Dist(lastUsed, queue.ring["used"].idx)
                             = Cardinality(Somewhere(v))
      BY DEF RequestConservation
    <2> DEFINE c == CursorOf(thr[v], queue)
               u == queue.ring["used"].idx
               W == RingWindow(availRing, c, availIdx)
               H == HandOf(thr[v])
               E == ToSet(thr[v].errs)
               C == RingWindow(usedRing, lastUsed, u)
    <2>v. v \in Vcpus
      OBVIOUS
    <2>y. PlaceTypes(v)
      BY <2>v, PlacesTyped
    <2>1. Somewhere(v) = W \cup H \cup E \cup C
      BY <2>v, SomewhereIs
    <2>2. Cursor(v) = c /\ InHand(v) = H
      BY DEF Cursor, CursorOf, InHand, HandOf, InLoop, OnCopy
    <2>3. /\ Apart(W, H, E, C) /\ W \cup H \cup E \cup C \subseteq outstanding
          /\ NoRepeat(availRing, c, availIdx) /\ NoRepeat(usedRing, lastUsed, u)
          /\ IsInjective(thr[v].errs)
      BY DEF SerialInv, Placed, InPlace
    <2>4. IsFiniteSet(W) /\ Cardinality(W) = Dist(c, availIdx)
      BY <2>3, <2>y, WindowSize DEF PlaceTypes
    <2>5. IsFiniteSet(C) /\ Cardinality(C) = Dist(lastUsed, u)
      BY <2>3, <2>y, WindowSize DEF PlaceTypes
    <2>6. IsFiniteSet(E) /\ Cardinality(E) = Len(thr[v].errs)
      BY <2>3, <2>y, ErrsSize DEF PlaceTypes
    <2>7. IsFiniteSet(H)
      BY FS_EmptySet, FS_Singleton DEF HandOf
    <2> HIDE DEF c, u, W, H, E, C
    <2>8. Cardinality(W \cup H \cup E \cup C)
            = Cardinality(W) + Cardinality(H) + Cardinality(E) + Cardinality(C)
      BY <2>3, <2>4, <2>5, <2>6, <2>7, ApartSize
    <2> QED BY <2>1, <2>2, <2>3, <2>4, <2>5, <2>6, <2>8 DEF u
  <1> QED BY <1>1, Inductive, Serial, PTL

\* The driver never sees a completion twice, nor one of a request it has not posted
\* (add_used_buffer; two vCPUs at once do show it one).
THEOREM CompletesOnce ==
  ASSUME NEW v, Vcpus = {v}
  PROVE  Spec => []CompletedOnce
  <1>1. IInv /\ FreshInv /\ SerialInv(v) => CompletedOnce
    <2> SUFFICES ASSUME IInv, FreshInv, SerialInv(v), drv = "run"
                 PROVE  LET completed == RingWindow(usedRing, lastUsed, usedIdx)
                        IN  /\ completed \subseteq outstanding
                            /\ Cardinality(completed) = Dist(lastUsed, usedIdx)
      BY DEF CompletedOnce
    <2> DEFINE u == queue.ring["used"].idx
    <2>y. PlaceTypes(v)
      BY PlacesTyped
    <2>1. RingWindow(usedRing, lastUsed, u) \subseteq outstanding /\ NoRepeat(usedRing, lastUsed, u)
      BY DEF SerialInv, Placed, InPlace
    <2>2. Dist(lastUsed, usedIdx) <= Dist(lastUsed, u)
      BY DEF SerialInv, NotAhead
    <2>3. /\ lastUsed \in Idx /\ usedIdx \in Idx /\ u \in Idx /\ usedRing \in [Slots -> Slots]
      BY <2>y DEF PlaceTypes
    <2> HIDE DEF u
    <2>4. /\ RingWindow(usedRing, lastUsed, usedIdx) \subseteq outstanding
          /\ NoRepeat(usedRing, lastUsed, usedIdx)
      BY <2>1, <2>2, <2>3, WindowPrefix
    <2> QED BY <2>3, <2>4, WindowSize
  <1> QED BY <1>1, Inductive, Serial, PTL

\* A request disappears only in the steps that give it up because a memory access has
\* failed or the queue has been stopped (read_avail_entry, write_status_byte, add_used).
THEOREM LostByFailure ==
  ASSUME NEW v, Vcpus = {v}
  PROVE  Spec => LostOnlyByFailure
  <1>1. IInv /\ PublishesOwnElement /\ FreshInv /\ SerialInv(v) /\ [Next]_vars
          => [AllKept]_vars
    BY SerialStep DEF Keeps, AllKept
  <1>2. Spec => [](FreshInv /\ SerialInv(v))
    BY Serial
  <1> QED BY <1>1, <1>2, Inductive, OwnElement, PTL DEF Spec, LostOnlyByFailure
=============================================================================
