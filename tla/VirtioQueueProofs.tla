------------------------- MODULE VirtioQueueProofs -------------------------
(***************************************************************************)
(* What the methods of the queue return and preserve, for every queue size  *)
(* and every width of the ring indices: the lemmas that the proofs about    *)
(* the modules using VirtioQueue rest on.                                   *)
(***************************************************************************)
EXTENDS VirtioQueue, TLAPS

\* The remainder by a positive number is smaller than that number.
LEMMA RemainderRange ==
  ASSUME NEW i \in Nat, NEW n \in Nat, n > 0
  PROVE  i % n \in 0 .. n - 1
  OBVIOUS

\* A ring index that advances stays a 16-bit index (u16::wrapping_add).
LEMMA WrapIncType ==
  ASSUME NEW i \in Idx
  PROVE  WrapInc(i) \in Idx
  <1>1. i + 1 \in Nat /\ IdxMod \in Nat /\ IdxMod > 0
    BY SizeAssumption DEF Idx
  <1> QED
    BY <1>1, RemainderRange DEF WrapInc, Idx

\* The rings that the constructors return are rings, and None is unlike all of them.
LEMMA NewRingType ==
  ASSUME NEW a \in Addr, NEW n \in 0 .. MaxQueueSize
  PROVE  NewRing(a, n) \in Ring
  BY SizeAssumption DEF NewRing, Ring, Idx

LEMMA NullAddrType == NullAddr \in Addr
  BY WordAssumption DEF NullAddr, Addr

\* VirtioQueue::new returns a queue without rings.
LEMMA NewQueueType == NewQueue \in Queue /\ RingsMatch(NewQueue)
  <1>1. NoRing \in Ring
    BY NullAddrType, NewRingType, SizeAssumption DEF NoRing
  <1> QED
    BY <1>1, NullAddrType, SizeAssumption DEF NewQueue, Queue, RingsMatch, Idx

\* VirtioQueue::reset returns to that state.
LEMMA ResetQueueType ==
  ASSUME NEW q \in Queue
  PROVE  ResetQueue(q) \in Queue /\ RingsMatch(ResetQueue(q))
  BY NewQueueType DEF ResetQueue, Queue, RingsMatch, NewQueue

\* The three address setters keep rings and addresses together.
LEMMA SetRingAddrType ==
  ASSUME NEW q \in Queue, RingsMatch(q), NEW r \in RingName, NEW a \in Addr
  PROVE  SetRingAddr(q, r, a) \in Queue /\ RingsMatch(SetRingAddr(q, r, a))
  <1>1. CASE q.addr[r] # NullAddr
    BY <1>1 DEF SetRingAddr
  <1>2. CASE q.addr[r] = NullAddr
    <2> DEFINE ring == IF a = NullAddr THEN q.ring[r] ELSE NewRing(a, q.size)
    <2>1. ring \in Ring
      BY NewRingType DEF Queue
    <2>2. IF a = NullAddr THEN ring = NoRing ELSE ring.base = a /\ ring.size > 0
      BY <1>2 DEF RingsMatch, NewRing, Queue
    <2>3. SetRingAddr(q, r, a) = [q EXCEPT !.addr[r] = a, !.ring[r] = ring]
      BY <1>2 DEF SetRingAddr
    <2> HIDE DEF ring
    <2>4. [q.addr EXCEPT ![r] = a] \in [RingName -> Addr]
      BY DEF Queue
    <2>5. [q.ring EXCEPT ![r] = ring] \in [RingName -> Ring]
      BY <2>1 DEF Queue
    <2>6. SetRingAddr(q, r, a) = [q EXCEPT !.addr = [q.addr EXCEPT ![r] = a],
                                           !.ring = [q.ring EXCEPT ![r] = ring]]
      BY <2>3 DEF Queue
    <2>7. SetRingAddr(q, r, a) \in Queue
      BY <2>4, <2>5, <2>6 DEF Queue
    <2>8. RingsMatch(SetRingAddr(q, r, a))
      BY <2>2, <2>3 DEF RingsMatch, Queue
    <2> QED BY <2>7, <2>8
  <1> QED BY <1>1, <1>2

\* set_ready and set_size touch neither rings nor addresses.
LEMMA SetReadyType ==
  ASSUME NEW q \in Queue, RingsMatch(q), NEW b \in BOOLEAN
  PROVE  SetReady(q, b) \in Queue /\ RingsMatch(SetReady(q, b))
  BY DEF SetReady, Queue, RingsMatch

LEMMA SetSizeType ==
  ASSUME NEW q \in Queue, RingsMatch(q), NEW n \in Nat
  PROVE  SetSize(q, n) \in Queue /\ RingsMatch(SetSize(q, n))
  <1>1. CASE n \in PowersOfTwo /\ n <= MaxQueueSize
    <2>1. n \in 1 .. MaxQueueSize
      BY <1>1, SizeAssumption DEF PowersOfTwo
    <2> QED BY <1>1, <2>1 DEF SetSize, Queue, RingsMatch
  <1>2. CASE ~(n \in PowersOfTwo /\ n <= MaxQueueSize)
    BY <1>2 DEF SetSize
  <1> QED BY <1>1, <1>2

\* Whatever index of a ring is set, the ring stays a ring of the same base and size.
LEMMA SetRingIdxType ==
  ASSUME NEW q \in Queue, RingsMatch(q), NEW r \in RingName, NEW i \in Idx,
         q.ring[r] # NoRing
  PROVE  LET p == [q EXCEPT !.ring[r].idx = i]
         IN  p \in Queue /\ RingsMatch(p)
  <1> DEFINE p == [q EXCEPT !.ring[r].idx = i]
  <1>1. q.ring[r] \in Ring /\ q.addr[r] # NullAddr
    BY DEF Queue, RingsMatch
  <1>2. [q.ring[r] EXCEPT !.idx = i] \in Ring
    BY <1>1 DEF Ring
  <1>3. p \in Queue
    BY <1>2 DEF Queue
  <1>4. ASSUME NEW s \in RingName
        PROVE  IF p.addr[s] = NullAddr THEN p.ring[s] = NoRing
               ELSE p.ring[s].base = p.addr[s] /\ p.ring[s].size > 0
    BY <1>1 DEF Queue, RingsMatch, Ring
  <1> QED BY <1>3, <1>4 DEF RingsMatch

\* update_last_avail_idx, with or without an available ring.
LEMMA UpdateLastAvailType ==
  ASSUME NEW q \in Queue, RingsMatch(q), NEW i \in Idx
  PROVE  UpdateLastAvail(q, i) \in Queue /\ RingsMatch(UpdateLastAvail(q, i))
  <1>1. CASE q.ring["avail"] # NoRing
    BY <1>1, SetRingIdxType DEF UpdateLastAvail, RingName
  <1>2. CASE q.ring["avail"] = NoRing
    <2>1. i \in Nat /\ q.size \in Nat /\ q.size > 0 /\ q.size <= MaxQueueSize
      BY SizeAssumption DEF Queue, Idx
    <2>2. i % q.size \in 0 .. q.size - 1
      BY <2>1, RemainderRange
    <2>3. i % q.size \in Idx
      BY <2>1, <2>2, SizeAssumption DEF Idx
    <2> QED BY <1>2, <2>3 DEF UpdateLastAvail, Queue, RingsMatch
  <1> QED BY <1>1, <1>2

LEMMA LastAvailType ==
  ASSUME NEW q \in Queue
  PROVE  LastAvail(q) \in Idx
  BY DEF LastAvail, Queue, Ring, RingName

\* add_used, whether or not the index can be written.
LEMMA CountUsedType ==
  ASSUME NEW q \in Queue, RingsMatch(q), q.ring["used"] # NoRing
  PROVE  CountUsed(q) \in Queue /\ RingsMatch(CountUsed(q))
  <1>1. q.ring["used"].idx \in Idx
    BY DEF Queue, Ring, RingName
  <1>2. WrapInc(q.ring["used"].idx) \in Idx
    BY <1>1, WrapIncType
  <1> QED BY <1>2, SetRingIdxType DEF CountUsed, RingName

\* The slots the handlers read and write lie inside the rings of a queue whose
\* addresses are set (ring_entry_addr returns Some).
LEMMA SlotRange ==
  ASSUME NEW q \in Queue, RingsMatch(q), HasAddrs(q), NEW i \in Idx
  PROVE  /\ AvailSlot(q, i) \in 0 .. MaxQueueSize - 1
         /\ UsedSlot(q) \in 0 .. MaxQueueSize - 1
  <1>1. \A r \in RingName : q.ring[r].size \in 1 .. MaxQueueSize /\ q.ring[r].idx \in Nat
    BY SizeAssumption DEF HasAddrs, RingsMatch, Queue, Ring, Idx
  <1>2. q.size \in 1 .. MaxQueueSize /\ i \in Nat
    BY SizeAssumption DEF Queue, Idx
  <1>3. i % q.size \in Nat
    BY <1>2, RemainderRange, SizeAssumption
  <1>4. AvailSlot(q, i) \in 0 .. q.ring["avail"].size - 1
    BY <1>1, <1>3, RemainderRange, SizeAssumption DEF AvailSlot, RingName
  <1>5. UsedSlot(q) \in 0 .. q.ring["used"].size - 1
    BY <1>1, RemainderRange, SizeAssumption DEF UsedSlot, RingName
  <1> QED BY <1>1, <1>4, <1>5, SizeAssumption DEF RingName

\* An address that is set has its ring.
LEMMA AddrsHaveRings ==
  ASSUME NEW q \in Queue, RingsMatch(q)
  PROVE  \A r \in RingName : q.addr[r] # NullAddr <=> q.ring[r] # NoRing
  BY DEF RingsMatch, NoRing, NewRing
=============================================================================
