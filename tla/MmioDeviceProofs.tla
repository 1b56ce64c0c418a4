-------------------------- MODULE MmioDeviceProofs --------------------------
(***************************************************************************)
(* Proofs about the registers, for a guest that writes any of them with any *)
(* value in any order, any set of offered features and any queue size.      *)
(*                                                                          *)
(* Types and the agreement of rings with addresses are inductive together;  *)
(* with them, no step but a reset moves a ring that exists.                 *)
(***************************************************************************)
EXTENDS MmioDevice, VirtioQueueProofs, TLAPS

IInv == TypeOK /\ RingsMatchAddrs

LEMMA Truncated ==
  ASSUME NEW n \in Nat
  PROVE  n % IdxMod \in Idx
  BY RemainderRange, SizeAssumption DEF Idx

\* Going forward by n from an index and measuring the way gives n again.
LEMMA DistForward ==
  ASSUME NEW u \in Idx, NEW n \in Idx
  PROVE  (u + n) % IdxMod \in Idx /\ Dist(u, (u + n) % IdxMod) = n
  <1>1. u \in Nat /\ n \in Nat /\ u < IdxMod /\ n < IdxMod /\ IdxMod \in Nat
    BY SizeAssumption DEF Idx
  <1>2. CASE u + n < IdxMod
    <2>1. (u + n) % IdxMod = u + n
      BY <1>1, <1>2
    <2>2. (u + n) + IdxMod - u = n + IdxMod /\ (n + IdxMod) % IdxMod = n
      BY <1>1
    <2> QED BY <1>1, <1>2, <2>1, <2>2 DEF Dist, Idx
  <1>3. CASE u + n >= IdxMod
    <2>1. (u + n) % IdxMod = u + n - IdxMod
      BY <1>1, <1>3
    <2>2. (u + n - IdxMod) + IdxMod - u = n /\ n % IdxMod = n
      BY <1>1
    <2> QED BY <1>1, <1>3, <2>1, <2>2 DEF Dist, Idx
  <1> QED BY <1>1, <1>2, <1>3

\* Distances are indices, and nothing is as near as the same index.
LEMMA DistType ==
  ASSUME NEW i \in Idx, NEW j \in Idx
  PROVE  Dist(i, j) \in Idx /\ Dist(i, i) = 0
  <1>1. i \in Nat /\ j \in Nat /\ i < IdxMod /\ IdxMod \in Nat /\ IdxMod > 0
    BY SizeAssumption DEF Idx
  <1>2. j + IdxMod - i \in Nat /\ i + IdxMod - i = IdxMod /\ IdxMod % IdxMod = 0
    BY <1>1
  <1> QED BY <1>2, Truncated DEF Dist

\* A notification leaves the queue in its type, moves the available index to i and the
\* used index forward by n, and nothing else of the rings.
LEMMA ServeType ==
  ASSUME NEW q \in Queue, RingsMatch(q), NEW i \in Idx, NEW n \in Idx, IsValid(q)
  PROVE  /\ ServeUpTo(q, i, n) \in Queue /\ RingsMatch(ServeUpTo(q, i, n))
         /\ LastAvail(ServeUpTo(q, i, n)) = i
         /\ ServeUpTo(q, i, n).ring["used"].idx = (q.ring["used"].idx + n) % IdxMod
         /\ \A r \in RingName :
              /\ ServeUpTo(q, i, n).ring[r].base = q.ring[r].base
              /\ ServeUpTo(q, i, n).ring[r].size = q.ring[r].size
  <1> DEFINE used == (q.ring["used"].idx + n) % IdxMod
             p == UpdateLastAvail(q, i)
             s == [p EXCEPT !.ring["used"].idx = used]
  <1>1. \A r \in RingName : q.ring[r] # NoRing /\ q.ring[r] \in Ring
    BY AddrsHaveRings DEF IsValid, HasAddrs, Queue
  <1>2. used \in Idx
    BY <1>1, DistForward DEF Ring, RingName
  <1>3. p \in Queue /\ RingsMatch(p) /\ p.ring["used"] = q.ring["used"]
        /\ p.ring["desc"] = q.ring["desc"]
        /\ p.ring["avail"] = [q.ring["avail"] EXCEPT !.idx = i]
    <2>1. p = [q EXCEPT !.ring["avail"].idx = i]
      BY <1>1 DEF UpdateLastAvail, RingName
    <2> QED BY <2>1, UpdateLastAvailType DEF Queue, RingName
  <1>4. ServeUpTo(q, i, n) = s
    BY <1>3 DEF ServeUpTo, Queue, RingName
  <1> HIDE DEF used, p
  <1>5. s \in Queue /\ RingsMatch(s)
    BY <1>1, <1>2, <1>3, SetRingIdxType DEF RingName
  <1>6. s.ring["used"] = [q.ring["used"] EXCEPT !.idx = used]
        /\ s.ring["desc"] = q.ring["desc"]
        /\ s.ring["avail"] = [q.ring["avail"] EXCEPT !.idx = i]
    BY <1>3 DEF Queue, RingName
  <1> HIDE DEF s
  <1>7. \A r \in RingName : /\ s.ring[r].base = q.ring[r].base
                            /\ s.ring[r].size = q.ring[r].size
    BY <1>1, <1>6 DEF Ring, RingName
  <1>8. LastAvail(s) = i
    <2>1. s.ring["avail"].idx = i /\ s.ring["avail"].size = q.ring["avail"].size
      BY <1>1, <1>6 DEF Ring, RingName
    <2>2. q.ring["avail"].size > 0
      BY <1>1 DEF IsValid, HasAddrs, RingsMatch, RingName
    <2>3. s.ring["avail"] # NoRing
      BY <2>1, <2>2 DEF NoRing, NewRing
    <2> QED BY <2>1, <2>3 DEF LastAvail
  <1>9. s.ring["used"].idx = (q.ring["used"].idx + n) % IdxMod
    BY <1>1, <1>6 DEF Ring, RingName, used
  <1> QED BY <1>4, <1>5, <1>7, <1>8, <1>9

\* What a notification leaves of the queue: the same one, or one that has been served.
LEMMA NotifyCases ==
  ASSUME queue \in Queue, NEW i \in Idx, WriteQueueNotify(i)
  PROVE  \/ queue' = queue
         \/ /\ DeviceReady /\ IsValid(queue)
            /\ \E n \in Idx : n <= Dist(LastAvail(queue), i) /\ queue' = ServeUpTo(queue, i, n)
  <1>1. CASE /\ DeviceReady /\ IsValid(queue)
             /\ \E n \in 0 .. Dist(LastAvail(queue), i) : queue' = ServeUpTo(queue, i, n)
    <2>1. PICK n \in 0 .. Dist(LastAvail(queue), i) : queue' = ServeUpTo(queue, i, n)
      BY <1>1
    <2>2. Dist(LastAvail(queue), i) \in Idx
      BY LastAvailType, DistType
    <2>3. n \in Idx /\ n <= Dist(LastAvail(queue), i)
      BY <2>2, SizeAssumption DEF Idx
    <2> QED BY <1>1, <2>1, <2>3
  <1> QED BY <1>1 DEF WriteQueueNotify

\* The queue after any register write.
LEMMA QueueStep ==
  ASSUME IInv, [Next]_regs
  PROVE  queue' \in Queue /\ RingsMatch(queue')
  <1>q. queue \in Queue /\ RingsMatch(queue)
    BY DEF IInv, TypeOK, RingsMatchAddrs
  <1>0. CASE queue' = queue
    BY <1>0, <1>q
  <1>1. CASE Reset
    BY <1>1, <1>q, ResetQueueType DEF Reset
  <1>2. ASSUME NEW n \in QueueNums, WriteQueueNum(n)
        PROVE  queue' \in Queue /\ RingsMatch(queue')
    <2>1. n % IdxMod \in Nat
      BY RegisterAssumption, Truncated DEF Idx
    <2> QED BY <1>2, <1>q, <2>1, SetSizeType DEF WriteQueueNum
  <1>3. ASSUME NEW b \in BOOLEAN, WriteQueueReady(b)
        PROVE  queue' \in Queue /\ RingsMatch(queue')
    BY <1>3, <1>q, SetReadyType DEF WriteQueueReady
  <1>4. ASSUME NEW r \in RingName, NEW w \in Word, WriteAddrLow(r, w) \/ WriteAddrHigh(r, w)
        PROVE  queue' \in Queue /\ RingsMatch(queue')
    <2>1. queue.addr[r] \in Addr
      BY <1>q DEF Queue
    <2>2. [hi |-> queue.addr[r].hi, lo |-> w] \in Addr
          /\ [hi |-> w, lo |-> queue.addr[r].lo] \in Addr
      BY <2>1 DEF Addr
    <2> QED BY <1>4, <1>q, <2>2, SetRingAddrType DEF WriteAddrLow, WriteAddrHigh
  <1>5. ASSUME NEW i \in Idx, WriteQueueNotify(i)
        PROVE  queue' \in Queue /\ RingsMatch(queue')
    BY <1>5, <1>q, <1>0, NotifyCases, ServeType
  <1> QED
    BY <1>0, <1>1, <1>2, <1>3, <1>4, <1>5, RegisterAssumption
       DEF Next, regs, WriteDeviceFeaturesSel, WriteDriverFeaturesSel, WriteDriverFeatures,
           WriteStatus, WriteInterruptAck

\* The registers beside the queue.
LEMMA RegisterStep ==
  ASSUME IInv, [Next]_regs
  PROVE  /\ status' \subseteq Flag /\ features' \in Features
         /\ devSel' \in Selectors /\ drvSel' \in Selectors /\ irq' \subseteq IrqBit
  <1> USE DEF IInv, TypeOK
  <1>1. ASSUME NEW s \in Selectors, WriteDeviceFeaturesSel(s) \/ WriteDriverFeaturesSel(s)
        PROVE  /\ status' \subseteq Flag /\ features' \in Features
               /\ devSel' \in Selectors /\ drvSel' \in Selectors /\ irq' \subseteq IrqBit
    BY <1>1 DEF WriteDeviceFeaturesSel, WriteDriverFeaturesSel
  <1>2. ASSUME NEW word \in SUBSET Bits, WriteDriverFeatures(word)
        PROVE  /\ status' \subseteq Flag /\ features' \in Features
               /\ devSel' \in Selectors /\ drvSel' \in Selectors /\ irq' \subseteq IrqBit
    BY <1>2 DEF WriteDriverFeatures, Features
  <1>3. ASSUME NEW flags \in StatusValues, WriteStatus(flags)
        PROVE  /\ status' \subseteq Flag /\ features' \in Features
               /\ devSel' \in Selectors /\ drvSel' \in Selectors /\ irq' \subseteq IrqBit
    <2>1. flags \subseteq Flag
      BY RegisterAssumption
    <2>2. Granted(flags) \subseteq Flag
      BY <2>1 DEF Granted, Flag
    <2> QED BY <1>3, <2>2 DEF WriteStatus
  <1>4. CASE Reset
    BY <1>4, RegisterAssumption DEF Reset, NoFeatures, Features
  <1>5. CASE /\ irq' = irq \/ irq' = irq \cup {"vring"} \/ irq' \subseteq irq
             /\ UNCHANGED <<status, features, devSel, drvSel>>
    BY <1>5 DEF IrqBit
  <1>6. ASSUME NEW i, WriteQueueNotify(i)
        PROVE  /\ status' \subseteq Flag /\ features' \in Features
               /\ devSel' \in Selectors /\ drvSel' \in Selectors /\ irq' \subseteq IrqBit
    <2>1. irq' = irq \/ irq' = irq \cup {"vring"}
      BY <1>6 DEF WriteQueueNotify
    <2> QED BY <1>5, <1>6, <2>1 DEF WriteQueueNotify
  <1> QED
    BY <1>1, <1>2, <1>3, <1>4, <1>5, <1>6
       DEF Next, regs, WriteQueueNum, WriteQueueReady, WriteAddrLow, WriteAddrHigh,
           WriteInterruptAck

LEMMA InitIInv ==
  ASSUME Init
  PROVE  IInv
  BY NewQueueType, RegisterAssumption
     DEF Init, IInv, TypeOK, RingsMatchAddrs, NoFeatures, Features, Flag, IrqBit

LEMMA Inductive == Spec => []IInv
  <1>1. IInv /\ [Next]_regs => IInv'
    BY QueueStep, RegisterStep DEF IInv, TypeOK, RingsMatchAddrs
  <1> QED BY <1>1, InitIInv, PTL DEF Spec

\* Type correctness of the registers and of the queue.
THEOREM RegistersTyped == Spec => []TypeOK
  <1>1. IInv => TypeOK
    BY DEF IInv
  <1> QED BY <1>1, Inductive, PTL

\* For every order of register writes, the addresses that handle_queue_notify tests and
\* the ring objects that the queue's methods test say the same.
THEOREM RingsMatchTheirAddrs == Spec => []RingsMatchAddrs
  <1>1. IInv => RingsMatchAddrs
    BY DEF IInv
  <1> QED BY <1>1, Inductive, PTL

\* A step that leaves the rings which exist as they are has kept them.
LEMMA SameRingsKept ==
  ASSUME IInv, IInv',
         \A r \in RingName : queue.ring[r] # NoRing => queue'.ring[r] = queue.ring[r]
  PROVE  RingsKept
  <1>1. LastAvail(queue) \in Idx /\ LastAvail(queue') \in Idx
    BY LastAvailType DEF IInv, TypeOK
  <1>2. Dist(LastAvail(queue), LastAvail(queue')) \in Nat
    BY <1>1, DistType DEF Idx
  <1>3. ASSUME queue.ring["used"] # NoRing
        PROVE  Dist(queue.ring["used"].idx, queue'.ring["used"].idx) = 0
    <2>1. queue'.ring["used"] = queue.ring["used"] /\ queue.ring["used"].idx \in Idx
      BY <1>3 DEF IInv, TypeOK, Queue, Ring, RingName
    <2> QED BY <2>1, DistType
  <1>4. \A r \in RingName : queue.ring[r] # NoRing => RingKept(r)
    BY DEF RingKept
  <1> QED BY <1>2, <1>3, <1>4 DEF RingsKept

\* A notification that has served the queue has kept the rings.
LEMMA ServedKept ==
  ASSUME IInv, NEW i \in Idx, WriteQueueNotify(i), DeviceReady, IsValid(queue),
         NEW n \in Idx, n <= Dist(LastAvail(queue), i), queue' = ServeUpTo(queue, i, n)
  PROVE  RingsKept
  <1>q. queue \in Queue /\ RingsMatch(queue)
    BY DEF IInv, TypeOK, RingsMatchAddrs
  <1>1. UNCHANGED <<status, queue.size, queue.ready, queue.addr>>
    BY <1>q DEF WriteQueueNotify, ServeUpTo, UpdateLastAvail, Queue
  <1>2. /\ LastAvail(queue') = i
        /\ queue'.ring["used"].idx = (queue.ring["used"].idx + n) % IdxMod
        /\ \A r \in RingName : /\ queue'.ring[r].base = queue.ring[r].base
                               /\ queue'.ring[r].size = queue.ring[r].size
    BY <1>q, ServeType
  <1>3. queue.ring["used"].idx \in Idx
    BY <1>q DEF Queue, Ring, RingName
  <1>4. Dist(queue.ring["used"].idx, queue'.ring["used"].idx) = n
    BY <1>2, <1>3, DistForward
  <1>5. \A r \in RingName : RingKept(r)
    BY <1>1, <1>2 DEF RingKept
  <1> QED BY <1>2, <1>4, <1>5 DEF RingsKept

\* For every order of register writes and every index found in guest memory, nothing but
\* a reset moves or resizes a ring that exists; an index is moved by notifications only,
\* and the used index by no more than the available one.
THEOREM RingsStay == Spec => RingsFixedUntilReset
  <1>1. IInv /\ IInv' /\ [Next]_regs => [Reset \/ RingsKept]_regs
    <2> SUFFICES ASSUME IInv, IInv', [Next]_regs, ~Reset PROVE RingsKept
      OBVIOUS
    <2>q. queue \in Queue /\ RingsMatch(queue)
      BY DEF IInv, TypeOK, RingsMatchAddrs
    <2>0. CASE queue'.ring = queue.ring
      BY <2>0, SameRingsKept
    <2>1. ASSUME NEW n \in QueueNums, WriteQueueNum(n)
          PROVE  queue'.ring = queue.ring
      BY <2>1, <2>q DEF WriteQueueNum, SetSize, Queue
    <2>2. ASSUME NEW b \in BOOLEAN, WriteQueueReady(b)
          PROVE  queue'.ring = queue.ring
      BY <2>2, <2>q DEF WriteQueueReady, SetReady, Queue
    <2>3. ASSUME NEW t \in RingName, NEW a, queue' = SetRingAddr(queue, t, a)
          PROVE  RingsKept
      <3>1. \A r \in RingName : queue.ring[r] # NoRing => queue'.ring[r] = queue.ring[r]
        BY <2>3, <2>q, AddrsHaveRings DEF SetRingAddr, Queue
      <3> QED BY <3>1, SameRingsKept
    <2>4. ASSUME NEW i \in Idx, WriteQueueNotify(i)
          PROVE  RingsKept
      BY <2>4, <2>q, <2>0, NotifyCases, ServedKept
    <2>5. ASSUME NEW r \in RingName, NEW w \in Word, WriteAddrLow(r, w) \/ WriteAddrHigh(r, w)
          PROVE  RingsKept
      BY <2>3, <2>5 DEF WriteAddrLow, WriteAddrHigh
    <2> QED
      BY <2>0, <2>1, <2>2, <2>4, <2>5, RegisterAssumption
         DEF Next, regs, WriteDeviceFeaturesSel, WriteDriverFeaturesSel, WriteDriverFeatures,
             WriteStatus, WriteInterruptAck
  <1> QED BY <1>1, Inductive, PTL DEF Spec, RingsFixedUntilReset

----------------------------------------------------------------------------
(* Slots and indices, where the largest size is a power of two (256). *)

\* The sizes that can be accepted divide the range of the index.
LEMMA Multiple ==
  ASSUME NEW n \in PowersOfTwo, MaxQueueSize \in PowersOfTwo, n <= MaxQueueSize
  PROVE  IdxMod % n = 0
  <1>1. MaxQueueSize % n = 0
    BY DEF PowersOfTwo
  <1>2. IdxMod \in Nat /\ IdxMod % MaxQueueSize = 0
    BY SizeAssumption
  <1> QED
    BY <1>1, <1>2 DEF PowersOfTwo

\* Such a size makes slot and index wrap together.
LEMMA RoundTogether ==
  ASSUME NEW n \in PowersOfTwo, IdxMod % n = 0, NEW i \in Idx
  PROVE  WrapInc(i) % n = ((i % n) + 1) % n
  <1>1. IdxMod \in Nat /\ i \in Nat /\ i < IdxMod
    BY SizeAssumption DEF Idx
  <1>2. CASE i + 1 < IdxMod
    <2>1. WrapInc(i) = i + 1
      BY <1>1, <1>2 DEF WrapInc
    <2> QED BY <1>1, <2>1 DEF PowersOfTwo
  <1>3. CASE i + 1 = IdxMod
    <2>1. WrapInc(i) = 0
      BY <1>1, <1>3 DEF WrapInc
    <2> QED BY <1>1, <1>3, <2>1 DEF PowersOfTwo
  <1> QED
    BY <1>1, <1>2, <1>3

\* Sizes are powers of two, except of a ring that does not exist.
SizesFit ==
  /\ queue.size \in PowersOfTwo
  /\ \A r \in RingName : queue.ring[r].size \in PowersOfTwo \cup {0}

LEMMA SizesFitStep ==
  ASSUME IInv, SizesFit, [Next]_regs
  PROVE  SizesFit'
  <1>q. queue \in Queue /\ RingsMatch(queue)
    BY DEF IInv, TypeOK, RingsMatchAddrs
  <1>0. CASE queue' = queue
    BY <1>0 DEF SizesFit
  <1>1. CASE Reset
    BY <1>1, <1>q DEF Reset, ResetQueue, NewQueue, NoRing, NewRing, Queue, SizesFit
  <1>2. ASSUME NEW n, queue' = SetSize(queue, n)
        PROVE  SizesFit'
    BY <1>2, <1>q DEF SetSize, Queue, SizesFit
  <1>3. ASSUME NEW b, queue' = SetReady(queue, b)
        PROVE  SizesFit'
    BY <1>3, <1>q DEF SetReady, Queue, SizesFit
  <1>4. ASSUME NEW r \in RingName, NEW a, queue' = SetRingAddr(queue, r, a)
        PROVE  SizesFit'
    <2>1. CASE queue.addr[r] # NullAddr
      BY <1>0, <1>4, <2>1 DEF SetRingAddr
    <2>2. CASE queue.addr[r] = NullAddr
      <3>1. /\ queue'.size = queue.size
            /\ queue'.ring[r].size \in {queue.ring[r].size, queue.size}
            /\ \A s \in RingName \ {r} : queue'.ring[s] = queue.ring[s]
        BY <1>4, <1>q, <2>2 DEF SetRingAddr, NewRing, Queue
      <3> QED BY <3>1 DEF SizesFit
    <2> QED BY <2>1, <2>2
  <1>5. ASSUME NEW i \in Idx, NEW n \in Idx, queue' = ServeUpTo(queue, i, n), IsValid(queue)
        PROVE  SizesFit'
    <2>1. \A r \in RingName : queue'.ring[r].size = queue.ring[r].size
      BY <1>5, <1>q, ServeType
    <2>2. queue'.size = queue.size
      BY <1>5, <1>q DEF ServeUpTo, UpdateLastAvail, Queue
    <2> QED BY <2>1, <2>2 DEF SizesFit
  <1>6. ASSUME NEW i \in Idx, WriteQueueNotify(i)
        PROVE  SizesFit'
    BY <1>0, <1>5, <1>6, <1>q, NotifyCases
  <1> QED
    BY <1>0, <1>1, <1>2, <1>3, <1>4, <1>6, RegisterAssumption
       DEF Next, regs, WriteDeviceFeaturesSel, WriteDriverFeaturesSel, WriteDriverFeatures,
           WriteStatus, WriteInterruptAck, WriteQueueNum, WriteQueueReady, WriteAddrLow,
           WriteAddrHigh

\* For every order of register writes, slot and index wrap together for the size of the
\* queue and of each ring (set_size).
THEOREM SlotsFollow ==
  ASSUME MaxQueueSize \in PowersOfTwo
  PROVE  Spec => []SlotsFollowIndex
  <1>1. Init => SizesFit
    BY DEF Init, SizesFit, NewQueue, NoRing, NewRing
  <1>2. IInv /\ SizesFit => SlotsFollowIndex
    <2> SUFFICES ASSUME IInv, SizesFit,
                        NEW n \in ({queue.size} \cup {queue.ring[r].size : r \in RingName}) \ {0},
                        NEW i \in Idx
                 PROVE  WrapInc(i) % n = ((i % n) + 1) % n
      BY DEF SlotsFollowIndex
    <2>1. n \in PowersOfTwo
      BY DEF SizesFit
    <2>2. n <= MaxQueueSize
      BY SizeAssumption DEF IInv, TypeOK, Queue, Ring
    <2> QED BY <2>1, <2>2, Multiple, RoundTogether
  <1> QED BY <1>1, <1>2, SizesFitStep, Inductive, InitIInv, PTL DEF Spec
=============================================================================
