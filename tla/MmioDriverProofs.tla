-------------------------- MODULE MmioDriverProofs --------------------------
(***************************************************************************)
(* Theorems about a driver that initialises the device in order, for every  *)
(* queue size, every choice of features and addresses, and any number of    *)
(* resets: what driver and device have agreed on when the driver runs.      *)
(***************************************************************************)
EXTENDS MmioDriver, MmioDeviceProofs

----------------------------------------------------------------------------
(* Features. *)

\* The steps from which the device has been given all the features, and those from
\* which it has accepted them.
Layout == {"num", "descLow", "descHigh", "availLow", "availHigh", "usedLow", "usedHigh",
           "ready", "driverOk", "run"}
Given == {"featuresOk", "check"} \cup Layout
Accepted == {"check"} \cup Layout

\* One half of the features at a time: what the driver has read is what is offered,
\* the selectors are where the next access needs them, and half 1 is in the device
\* before half 0.
FeaturesInv ==
  /\ features \in Features
  /\ agreed \in Features /\ Subset(agreed, Offered)
  /\ step = "read1" => devSel = 1
  /\ step = "read0" => devSel = 0
  /\ step = "write1" => drvSel = 1
  /\ step = "write0" => drvSel = 0
  /\ step \in {"drvSel0", "write0"} => features[1] = agreed[1]
  /\ step \in Given => features = agreed
  /\ step \in Accepted => "FEATURES_OK" \in status /\ "FAILED" \notin status
  /\ step # "failed"

LEMMA FeaturesInit == DriverInit => FeaturesInv
BY RegisterAssumption
   DEF DriverInit, Init, FeaturesInv, NoFeatures, Features, Half, Subset, Given, Accepted,
       Layout

\* The steps of the queue and of operation.
LayoutStep ==
  \/ SetNum \/ MakeReady
  \/ \E r \in RingName : SetLow(r) \/ SetHigh(r)
  \/ Post \/ NotifyQueue \/ Acknowledged

\* They keep the features, the selectors and the status, and go from one to the next.
LEMMA LayoutStepFrame ==
  ASSUME LayoutStep
  PROVE  /\ UNCHANGED <<status, features, devSel, drvSel, agreed>>
         /\ step \in Layout /\ step' \in Layout
<1>1. CASE SetNum
  BY <1>1 DEF SetNum, WriteQueueNum, After, choices, Layout
<1>2. CASE MakeReady
  BY <1>2 DEF MakeReady, WriteQueueReady, After, choices, Layout
<1>3. ASSUME NEW r \in RingName, SetLow(r)
      PROVE  /\ UNCHANGED <<status, features, devSel, drvSel, agreed>>
             /\ step \in Layout /\ step' \in Layout
  BY <1>3 DEF SetLow, WriteAddrLow, After, LowStep, choices, Layout, RingName
<1>4. ASSUME NEW r \in RingName, SetHigh(r)
      PROVE  /\ UNCHANGED <<status, features, devSel, drvSel, agreed>>
             /\ step \in Layout /\ step' \in Layout
  BY <1>4 DEF SetHigh, WriteAddrHigh, After, HighStep, choices, Layout, RingName
<1>5. CASE Post
  BY <1>5 DEF Post, regs, Layout
<1>6. CASE NotifyQueue
  BY <1>6 DEF NotifyQueue, WriteQueueNotify, choices, Layout
<1>7. CASE Acknowledged
  BY <1>7 DEF Acknowledged, WriteInterruptAck, choices, Layout
<1> QED
  BY <1>1, <1>2, <1>3, <1>4, <1>5, <1>6, <1>7 DEF LayoutStep

\* Status words that leave the features alone and have no flag to be refused for.
LEMMA StatusKept ==
  ASSUME NEW flags, WriteStatus(flags), "FAILED" \notin flags, Subset(features, Offered)
  PROVE  status' = flags /\ UNCHANGED <<features, devSel, drvSel>>
BY DEF WriteStatus, Granted

LEMMA FeaturesStep == FeaturesInv /\ [DriverNext]_vars => FeaturesInv'
<1> SUFFICES ASSUME FeaturesInv, [DriverNext]_vars PROVE FeaturesInv'
  OBVIOUS
<1> USE DEF FeaturesInv, Half, Given, Accepted, Layout
<1>1. CASE UNCHANGED vars
  BY <1>1 DEF vars, regs, choices, Subset
<1>2. CASE DriverReset
  BY <1>2, RegisterAssumption DEF DriverReset, Reset, NoFeatures, Features, Subset
<1>3. CASE Acknowledge
  BY <1>3 DEF Acknowledge, WriteStatus, choices, Subset
<1>4. CASE Driver
  BY <1>4 DEF Driver, WriteStatus, choices, Subset
<1>5. CASE FeaturesOk
  <2>1. Subset(features, Offered)
    BY <1>5 DEF FeaturesOk
  <2>2. status' = {"ACKNOWLEDGE", "DRIVER", "FEATURES_OK"}
        /\ UNCHANGED <<features, devSel, drvSel>>
    BY <1>5, <2>1, StatusKept DEF FeaturesOk
  <2> QED
    BY <1>5, <2>2 DEF FeaturesOk, choices, Subset
<1>6. CASE CheckFeatures
  BY <1>6 DEF CheckFeatures, regs, choices, Subset
<1>7. ASSUME NEW h \in Half, SelectOffered(h) PROVE FeaturesInv'
  BY <1>7 DEF SelectOffered, WriteDeviceFeaturesSel, choices, Subset
<1>8. ASSUME NEW h \in Half, ReadOffered(h) PROVE FeaturesInv'
  <2>1. devSel = h
    BY <1>8 DEF ReadOffered
  <2>2. PICK word : word \subseteq Offered[h] /\ agreed' = [agreed EXCEPT ![h] = word]
    BY <1>8, <2>1 DEF ReadOffered, DeviceFeaturesWord
  <2>3. agreed' \in Features /\ Subset(agreed', Offered)
    BY <2>2, RegisterAssumption DEF Features, Subset
  <2> QED
    BY <1>8, <2>3 DEF ReadOffered, regs, Subset
<1>9. ASSUME NEW h \in Half, SelectAgreed(h) PROVE FeaturesInv'
  BY <1>9 DEF SelectAgreed, WriteDriverFeaturesSel, choices, Subset
<1>10. ASSUME NEW h \in Half, WriteAgreed(h) PROVE FeaturesInv'
  <2>1. drvSel = h /\ features' = [features EXCEPT ![h] = agreed[h]]
    BY <1>10 DEF WriteAgreed, WriteDriverFeatures
  <2>2. features' \in Features /\ features'[h] = agreed[h]
        /\ (h = 0 => features'[1] = features[1])
    BY <2>1 DEF Features
  <2>3. h = 0 => features' = agreed
    BY <1>10, <2>1, <2>2 DEF WriteAgreed, Features
  <2> QED
    BY <1>10, <2>2, <2>3 DEF WriteAgreed, WriteDriverFeatures, choices, Subset
<1>11. CASE DriverOk
  <2>1. Subset(features, Offered)
    BY <1>11 DEF DriverOk
  <2>2. status' = {"ACKNOWLEDGE", "DRIVER", "FEATURES_OK", "DRIVER_OK"}
        /\ UNCHANGED <<features, devSel, drvSel>>
    BY <1>11, <2>1, StatusKept DEF DriverOk
  <2> QED
    BY <1>11, <2>2 DEF DriverOk, After, choices, Subset
<1>12. CASE LayoutStep
  BY <1>12, LayoutStepFrame DEF Subset
<1> QED
  BY <1>1, <1>2, <1>3, <1>4, <1>5, <1>6, <1>7, <1>8, <1>9, <1>10, <1>11, <1>12
     DEF DriverNext, LayoutStep

\* Whatever is offered and wanted, the device ends with the features the driver has
\* agreed to, and never refuses them (DRIVER_FEATURES, handle_status_write).
THEOREM FeaturesAgree == DriverSpec => []FeaturesAgreed
<1>1. FeaturesInv => FeaturesAgreed
  BY DEF FeaturesInv, FeaturesAgreed, Given, Accepted, Layout
<1> QED
  BY <1>1, FeaturesInit, FeaturesStep, PTL DEF DriverSpec

----------------------------------------------------------------------------
(* The layout of the rings. *)

\* What mmio_wide shows to be needed: an address is set by one register, the other
\* half being zero.
HalfAddrs == \A a \in Addrs : a.hi = 0 \/ a.lo = 0

\* The steps by which a half of an address has been written.
LowSet == [desc  |-> Layout \ {"num", "descLow"},
           avail |-> Layout \ {"num", "descLow", "descHigh", "availLow"},
           used  |-> {"usedHigh", "ready", "driverOk", "run"}]
HighSet == [desc  |-> Layout \ {"num", "descLow", "descHigh"},
            avail |-> {"usedLow", "usedHigh", "ready", "driverOk", "run"},
            used  |-> {"ready", "driverOk", "run"}]

\* The address that the device should have by now.
InForce(r) == [hi |-> IF step \in HighSet[r] THEN addr[r].hi ELSE 0,
               lo |-> IF step \in LowSet[r] THEN addr[r].lo ELSE 0]

Chosen ==
  /\ addr \in [RingName -> Addr]
  /\ \A r \in RingName : addr[r].hi = 0 \/ addr[r].lo = 0
  /\ step # "reset" => /\ size \in PowersOfTwo /\ size \in 1 .. MaxQueueSize
                       /\ \A r \in RingName : addr[r] # NullAddr

\* The queue has what the driver has written so far, and its rings have the size
\* that was in force before any of them existed.
LayoutInv ==
  /\ queue \in Queue /\ RingsMatch(queue) /\ Chosen
  /\ step \in Layout \ {"num"} => queue.size = size
  /\ step \in {"driverOk", "run"} => queue.ready
  /\ \A r \in RingName :
       /\ queue.addr[r] = InForce(r)
       /\ queue.ring[r] # NoRing => queue.ring[r].size = size

LEMMA LayoutInit == DriverInit => LayoutInv
  <1> SUFFICES ASSUME DriverInit PROVE LayoutInv
    OBVIOUS
  <1>1. queue \in Queue /\ RingsMatch(queue)
    BY NewQueueType DEF DriverInit, Init
  <1>2. Chosen
    BY NullAddrType DEF DriverInit, Chosen, NullAddr
  <1>3. \A r \in RingName : InForce(r) = NullAddr
    BY DEF DriverInit, InForce, LowSet, HighSet, Layout, NullAddr, RingName
  <1> QED
    BY <1>1, <1>2, <1>3 DEF DriverInit, Init, LayoutInv, NewQueue, Layout

\* One write moves one half of one ring into force.
LEMMA LowWritten ==
  ASSUME NEW r \in RingName, step = LowStep[r], step' = After[step], addr' = addr
  PROVE  /\ InForce(r) = NullAddr /\ InForce(r)' = [hi |-> 0, lo |-> addr[r].lo]
         /\ \A s \in RingName \ {r} : InForce(s)' = InForce(s)
         /\ step \in Layout \ {"num"} /\ step' \in Layout \ {"num", "driverOk", "run"}
BY DEF InForce, LowSet, HighSet, LowStep, After, Layout, NullAddr, RingName

LEMMA HighWritten ==
  ASSUME NEW r \in RingName, step = HighStep[r], step' = After[step], addr' = addr,
         addr[r] \in Addr
  PROVE  /\ InForce(r) = [hi |-> 0, lo |-> addr[r].lo] /\ InForce(r)' = addr[r]
         /\ \A s \in RingName \ {r} : InForce(s)' = InForce(s)
         /\ step \in Layout \ {"num"} /\ step' \in Layout \ {"num", "driverOk", "run"}
BY DEF InForce, LowSet, HighSet, HighStep, After, Layout, RingName, Addr

\* What setting an address does to the ring of that name, and that it leaves the others.
LEMMA AddrEffect ==
  ASSUME NEW q \in Queue, RingsMatch(q), NEW r \in RingName, NEW a \in Addr,
         q.addr[r] = NullAddr
  PROVE  LET p == SetRingAddr(q, r, a)
         IN  /\ p.size = q.size /\ p.ready = q.ready /\ p.nextAvail = q.nextAvail
             /\ p.addr[r] = a /\ p.ring[r].idx = 0
             /\ p.ring[r] # NoRing => p.ring[r].size = q.size
             /\ \A s \in RingName \ {r} : p.addr[s] = q.addr[s] /\ p.ring[s] = q.ring[s]
BY DEF SetRingAddr, Queue, RingsMatch, NoRing, NewRing

\* A step that keeps the choices and leaves the queue alone, and is not one of those
\* after which something more of it is in force.
LEMMA LayoutKept ==
  ASSUME LayoutInv, UNCHANGED <<queue, size, addr>>,
         \/ step' = step
         \/ step # "reset" /\ step \notin Layout \ {"driverOk"} /\ step' \notin Layout \ {"num", "run"}
            /\ (step = "driverOk" <=> step' = "run")
  PROVE  LayoutInv'
<1>1. \A r \in RingName : InForce(r)' = InForce(r)
  BY DEF InForce, LowSet, HighSet, Layout, RingName
<1>2. Chosen'
  BY DEF LayoutInv, Chosen
<1>3. step' \in Layout \ {"num"} => step \in Layout \ {"num"}
  BY DEF Layout
<1>4. step' \in {"driverOk", "run"} => step \in {"driverOk", "run"}
  BY DEF Layout
<1> QED
  BY <1>1, <1>2, <1>3, <1>4 DEF LayoutInv, RingsMatch

LEMMA LayoutAtReset ==
  ASSUME LayoutInv, DriverReset, HalfAddrs
  PROVE  LayoutInv'
<1>1. queue' \in Queue /\ RingsMatch(queue')
  BY ResetQueueType DEF LayoutInv, DriverReset, Reset
<1>2. PICK n \in Sizes, a \in Addrs, d \in Addrs :
        size' = n /\ addr' = [r \in RingName |-> IF r = "desc" THEN d ELSE a]
  BY DEF DriverReset
<1>3. Chosen'
  <2>1. n \in PowersOfTwo /\ n \in 1 .. MaxQueueSize
    BY DriverAssumption
  <2>2. /\ a \in Addr /\ a # NullAddr /\ (a.hi = 0 \/ a.lo = 0)
        /\ d \in Addr /\ d # NullAddr /\ (d.hi = 0 \/ d.lo = 0)
    BY DriverAssumption DEF HalfAddrs
  <2> QED
    BY <1>2, <2>1, <2>2 DEF Chosen
<1>4. step' = "acknowledge" /\ queue' = ResetQueue(queue)
  BY DEF DriverReset, Reset
<1>5. \A r \in RingName : InForce(r)' = NullAddr
  BY <1>4 DEF InForce, LowSet, HighSet, Layout, NullAddr, RingName
<1> QED
  BY <1>1, <1>3, <1>4, <1>5 DEF LayoutInv, ResetQueue, NewQueue, Layout

\* The rest of the queue's steps: half an address.
LEMMA LayoutAtHalf ==
  ASSUME LayoutInv, NEW r \in RingName, SetLow(r) \/ SetHigh(r)
  PROVE  LayoutInv'
<1>q. /\ queue \in Queue /\ RingsMatch(queue) /\ Chosen /\ queue.addr[r] = InForce(r)
      /\ addr[r] \in Addr /\ 0 \in Word
  BY WordAssumption DEF LayoutInv, Chosen
<1>c. addr' = addr /\ size' = size /\ step' = After[step]
  BY DEF SetLow, SetHigh, choices
<1>1. PICK a \in Addr : /\ queue' = SetRingAddr(queue, r, a)
                        /\ queue.addr[r] = NullAddr => InForce(r)' = a
                        /\ queue.addr[r] # NullAddr => InForce(r)' = queue.addr[r]
  <2>1. CASE SetLow(r)
    <3>1. InForce(r) = NullAddr /\ InForce(r)' = [hi |-> 0, lo |-> addr[r].lo]
      BY <2>1, <1>c, LowWritten DEF SetLow
    <3>2. queue' = SetRingAddr(queue, r, [hi |-> 0, lo |-> addr[r].lo])
      BY <2>1, <3>1, <1>q DEF SetLow, WriteAddrLow, NullAddr
    <3> QED
      BY <3>1, <3>2, <1>q DEF Addr
  <2>2. CASE SetHigh(r)
    <3>1. InForce(r) = [hi |-> 0, lo |-> addr[r].lo] /\ InForce(r)' = addr[r]
      BY <2>2, <1>c, <1>q, HighWritten DEF SetHigh
    <3>2. queue' = SetRingAddr(queue, r, [hi |-> addr[r].hi, lo |-> addr[r].lo])
      BY <2>2, <3>1, <1>q DEF SetHigh, WriteAddrHigh
    <3>3. addr[r] = [hi |-> addr[r].hi, lo |-> addr[r].lo]
      BY <1>q DEF Addr
    <3>4. queue.addr[r] # NullAddr => addr[r].hi = 0
      BY <3>1, <1>q DEF NullAddr, Chosen
    <3> QED
      BY <3>1, <3>2, <3>3, <3>4, <1>q
  <2> QED
    BY <2>1, <2>2
<1>2. /\ step \in Layout \ {"num"} /\ step' \in Layout \ {"num", "driverOk", "run"}
      /\ \A s \in RingName \ {r} : InForce(s)' = InForce(s)
  BY <1>c, <1>q, LowWritten, HighWritten DEF SetLow, SetHigh
<1>3. queue' \in Queue /\ RingsMatch(queue')
  BY <1>1, <1>q, SetRingAddrType
<1>4. Chosen'
  BY <1>c, <1>2, <1>q DEF Chosen, Layout
<1>5. queue.size = size
  BY <1>2 DEF LayoutInv
<1>6. /\ queue'.size = size
      /\ queue'.addr[r] = InForce(r)'
      /\ queue'.ring[r] # NoRing => queue'.ring[r].size = size
      /\ \A s \in RingName \ {r} :
           queue'.addr[s] = queue.addr[s] /\ queue'.ring[s] = queue.ring[s]
  <2>1. CASE queue.addr[r] = NullAddr
    BY <2>1, <1>1, <1>5, <1>q, AddrEffect
  <2>2. CASE queue.addr[r] # NullAddr
    BY <2>2, <1>1, <1>5, <1>q DEF SetRingAddr, LayoutInv
  <2> QED
    BY <2>1, <2>2
<1> QED
  BY <1>2, <1>3, <1>4, <1>6, <1>c DEF LayoutInv

\* The size the driver has chosen is accepted, and no ring exists before it is.
LEMMA LayoutAtNum ==
  ASSUME LayoutInv, SetNum
  PROVE  LayoutInv'
<1>1. /\ step = "num" /\ step' = "descLow" /\ size' = size /\ addr' = addr
      /\ queue' = SetSize(queue, size % IdxMod)
  BY DEF SetNum, WriteQueueNum, After, choices
<1>2. size \in Nat /\ size <= MaxQueueSize /\ size \in PowersOfTwo /\ size < IdxMod
  BY <1>1, SizeAssumption DEF LayoutInv, Chosen
<1>3. size % IdxMod = size
  BY <1>2, SizeAssumption
<1>4. queue' \in Queue /\ RingsMatch(queue') /\ Chosen'
  BY <1>1, <1>2, <1>3, SetSizeType DEF LayoutInv, Chosen
<1>5. queue'.size = size /\ queue'.ring = queue.ring /\ queue'.addr = queue.addr
  BY <1>1, <1>2, <1>3 DEF SetSize, LayoutInv, Queue
<1>6. \A r \in RingName : InForce(r) = NullAddr /\ InForce(r)' = NullAddr
  BY <1>1 DEF InForce, LowSet, HighSet, Layout, RingName, NullAddr
<1>7. \A r \in RingName : queue.ring[r] = NoRing
  BY <1>6 DEF LayoutInv, RingsMatch
<1> QED
  BY <1>1, <1>4, <1>5, <1>6, <1>7 DEF LayoutInv

Posted == posted \in 0 .. MaxPosts

LEMMA PostedIndex ==
  ASSUME Posted
  PROVE  posted \in Idx /\ posted \in Nat /\ IndexFound \subseteq Idx
BY SizeAssumption, DriverAssumption DEF Posted, Idx, IndexFound

\* A notification keeps what the guest has configured.
LEMMA ServeFrame ==
  ASSUME NEW q \in Queue, NEW i \in Idx, NEW n \in Idx
  PROVE  LET p == ServeUpTo(q, i, n)
         IN  p.size = q.size /\ p.ready = q.ready /\ p.addr = q.addr
BY DEF ServeUpTo, UpdateLastAvail, Queue

LEMMA LayoutNext ==
  ASSUME HalfAddrs, Posted
  PROVE  LayoutInv /\ [DriverNext]_vars => LayoutInv'
<1> SUFFICES ASSUME LayoutInv, [DriverNext]_vars PROVE LayoutInv'
  OBVIOUS
<1>1. CASE UNCHANGED vars
  BY <1>1, LayoutKept DEF vars, regs, choices
<1>2. CASE DriverReset
  BY <1>2, LayoutAtReset
<1>3. CASE Acknowledge \/ Driver \/ FeaturesOk \/ DriverOk
  BY <1>3, LayoutKept
     DEF Acknowledge, Driver, FeaturesOk, DriverOk, WriteStatus, choices, After, Layout
<1>4. CASE CheckFeatures
  BY <1>4, LayoutKept DEF CheckFeatures, regs, choices, Layout
<1>5. ASSUME NEW h \in Half,
             SelectOffered(h) \/ ReadOffered(h) \/ SelectAgreed(h) \/ WriteAgreed(h)
      PROVE  LayoutInv'
  BY <1>5, LayoutKept
     DEF SelectOffered, ReadOffered, SelectAgreed, WriteAgreed, WriteDeviceFeaturesSel,
         WriteDriverFeaturesSel, WriteDriverFeatures, regs, choices, Layout
<1>6. CASE SetNum
  BY <1>6, LayoutAtNum
<1>7. CASE MakeReady
  <2>1. queue' = SetReady(queue, TRUE) /\ step = "ready" /\ step' = "driverOk"
        /\ size' = size /\ addr' = addr
    BY <1>7 DEF MakeReady, WriteQueueReady, After, choices
  <2>2. queue' \in Queue /\ RingsMatch(queue') /\ queue'.ready
    BY <2>1, SetReadyType DEF LayoutInv, SetReady, Queue
  <2>3. queue'.size = queue.size /\ queue'.ring = queue.ring /\ queue'.addr = queue.addr
    BY <2>1 DEF LayoutInv, SetReady, Queue
  <2>4. \A r \in RingName : InForce(r)' = InForce(r)
    BY <2>1 DEF InForce, LowSet, HighSet, Layout, RingName
  <2> QED
    BY <2>1, <2>2, <2>3, <2>4 DEF LayoutInv, Chosen, Layout
<1>8. ASSUME NEW r \in RingName, SetLow(r) \/ SetHigh(r)
      PROVE  LayoutInv'
  BY <1>8, LayoutAtHalf
<1>9. CASE Post \/ Acknowledged
  BY <1>9, LayoutKept DEF Post, Acknowledged, WriteInterruptAck, regs, choices
<1>10. CASE NotifyQueue
  <2>0. PICK i \in Idx : WriteQueueNotify(i)
    BY <1>10, PostedIndex DEF NotifyQueue
  <2>1. CASE queue' = queue
    BY <2>1, <1>10, LayoutKept DEF NotifyQueue, choices
  <2>2. CASE queue' # queue
    <3>1. PICK n \in Idx : queue' = ServeUpTo(queue, i, n) /\ IsValid(queue)
      BY <2>0, <2>2, NotifyCases DEF LayoutInv
    <3>2. /\ queue' \in Queue /\ RingsMatch(queue')
          /\ \A r \in RingName : queue'.ring[r].size = queue.ring[r].size
      BY <3>1, ServeType DEF LayoutInv
    <3>3. queue'.size = queue.size /\ queue'.ready = queue.ready /\ queue'.addr = queue.addr
      BY <3>1, ServeFrame DEF LayoutInv
    <3>4. \A r \in RingName : InForce(r)' = InForce(r)
      BY <1>10 DEF NotifyQueue, choices, InForce
    <3>5. \A r \in RingName : queue.ring[r].size = size /\ queue'.ring[r].size = size
      BY <3>1, <3>2, AddrsHaveRings DEF LayoutInv, IsValid, HasAddrs
    <3> QED
      BY <1>10, <3>2, <3>3, <3>4, <3>5 DEF LayoutInv, Chosen, NotifyQueue, choices
  <2> QED
    BY <2>1, <2>2
<1> QED
  BY <1>1, <1>2, <1>3, <1>4, <1>5, <1>6, <1>7, <1>8, <1>9, <1>10 DEF DriverNext

LEMMA PostedNext == Posted /\ [DriverNext]_vars => Posted'
<1> SUFFICES ASSUME Posted, [DriverNext]_vars PROVE Posted'
  OBVIOUS
<1>1. CASE posted' = posted
  BY <1>1 DEF Posted
<1>2. CASE DriverReset \/ Post
  BY <1>2, DriverAssumption DEF DriverReset, Post, Posted
<1> QED
  BY <1>1, <1>2
     DEF DriverNext, vars, choices, Acknowledge, Driver, FeaturesOk, CheckFeatures,
         SelectOffered, ReadOffered, SelectAgreed, WriteAgreed, SetNum, MakeReady, DriverOk,
         SetLow, SetHigh, NotifyQueue, Acknowledged

LEMMA LayoutInductive ==
  ASSUME HalfAddrs
  PROVE  DriverSpec => [](Posted /\ LayoutInv)
<1>1. DriverInit => Posted /\ LayoutInv
  BY LayoutInit, DriverAssumption DEF DriverInit, Posted
<1>2. Posted /\ LayoutInv /\ [DriverNext]_vars => (Posted /\ LayoutInv)'
  BY LayoutNext, PostedNext
<1> QED
  BY <1>1, <1>2, PTL DEF DriverSpec

LEMMA LayoutDone == LayoutInv => LayoutAgreed
<1> SUFFICES ASSUME LayoutInv, step = "run" PROVE LayoutAgreed
  BY DEF LayoutAgreed
<1>1. \A r \in RingName : queue.addr[r] = addr[r]
  BY DEF LayoutInv, Chosen, InForce, LowSet, HighSet, Layout, RingName, Addr
<1>2. \A r \in RingName : queue.addr[r] # NullAddr
  BY <1>1 DEF LayoutInv, Chosen
<1>3. \A r \in RingName : queue.ring[r].base = addr[r] /\ queue.ring[r].size = size
  BY <1>1, <1>2, AddrsHaveRings DEF LayoutInv, RingsMatch
<1> QED
  BY <1>2, <1>3 DEF LayoutInv, LayoutAgreed, IsValid, HasAddrs, Layout

\* However often the driver starts again and with whatever size and addresses, the rings
\* of the device are those the driver has chosen when it runs, provided it can write
\* each address at once (set_size, the address registers, reset_device).
THEOREM LayoutsAgree ==
  ASSUME HalfAddrs
  PROVE  DriverSpec => []LayoutAgreed
  BY LayoutDone, LayoutInductive, PTL

----------------------------------------------------------------------------
(* Indices and interrupts. *)

NothingServed ==
  /\ queue.nextAvail = 0 /\ \A r \in RingName : queue.ring[r].idx = 0
  /\ posted = 0 /\ irq = {}

Served == queue.ring["used"].idx <= LastAvail(queue) /\ LastAvail(queue) <= posted

IndexInv ==
  /\ step # "run" => NothingServed
  /\ step = "run" => Served /\ (posted = 0 => irq = {})

\* Distances on the circle of the indices, where nothing has wrapped.
LEMMA DistAhead ==
  ASSUME NEW i \in Idx, NEW j \in Idx, i <= j
  PROVE  Dist(i, j) = j - i
<1>1. (j - i) + IdxMod = j + IdxMod - i /\ j - i \in Nat /\ j - i < IdxMod
  BY SizeAssumption DEF Idx
<1>2. ((j - i) + IdxMod) % IdxMod = j - i
  BY <1>1, SizeAssumption
<1> QED
  BY <1>1, <1>2 DEF Dist

\* An index that is behind and goes forward by no more than the other stays behind.
LEMMA StaysBehind ==
  ASSUME NEW u \in Idx, NEW i \in Idx, NEW j \in Idx, NEW n \in Idx,
         u <= i, i <= j, n <= Dist(i, j)
  PROVE  (u + n) % IdxMod <= j
<1>1. n <= j - i
  BY DistAhead
<1>2. u + n <= j /\ u + n \in Nat /\ u + n < IdxMod
  BY <1>1, SizeAssumption DEF Idx
<1>3. (u + n) % IdxMod = u + n
  BY <1>2, SizeAssumption
<1> QED
  BY <1>2, <1>3

\* A write to an address register leaves every index where it is.
LEMMA HalfKeepsIndices ==
  ASSUME LayoutInv, NothingServed, NEW r \in RingName, SetLow(r) \/ SetHigh(r)
  PROVE  queue'.nextAvail = 0 /\ \A s \in RingName : queue'.ring[s].idx = 0
<1>1. PICK a \in Addr : queue' = SetRingAddr(queue, r, a)
  BY WordAssumption
     DEF LayoutInv, Chosen, SetLow, SetHigh, WriteAddrLow, WriteAddrHigh, Addr, Queue
<1>2. CASE queue.addr[r] # NullAddr
  BY <1>1, <1>2 DEF SetRingAddr, NothingServed
<1>3. CASE queue.addr[r] = NullAddr
  <2>1. /\ queue'.nextAvail = queue.nextAvail /\ queue'.ring[r].idx = 0
        /\ \A s \in RingName \ {r} : queue'.ring[s] = queue.ring[s]
    BY <1>1, <1>3, AddrEffect DEF LayoutInv
  <2> QED
    BY <2>1 DEF NothingServed
<1> QED
  BY <1>2, <1>3

\* A driver that runs has its index read where it has put it.
LEMMA FoundPosted ==
  ASSUME LayoutInv, NotifyQueue
  PROVE  WriteQueueNotify(posted)
<1>1. queue.ring["avail"].base = addr["avail"]
  BY LayoutDone DEF LayoutAgreed, NotifyQueue, RingName
<1> QED
  BY <1>1 DEF NotifyQueue, IndexFound

LEMMA IndexNext == LayoutInv /\ IndexInv /\ Posted /\ [DriverNext]_vars => IndexInv'
<1> SUFFICES ASSUME LayoutInv, IndexInv, Posted, [DriverNext]_vars
             PROVE  IndexInv'
  OBVIOUS
\* Steps that touch neither the queue nor what has been posted or signalled.
<1>1. CASE UNCHANGED <<queue, irq, posted>> /\ (step = "run" <=> step' = "run")
  BY <1>1 DEF IndexInv, NothingServed, Served, LastAvail
<1>2. CASE DriverReset
  BY <1>2 DEF DriverReset, Reset, IndexInv, NothingServed, ResetQueue, NewQueue, NoRing, NewRing
<1>3. CASE DriverOk
  BY <1>3 DEF DriverOk, WriteStatus, After, choices, IndexInv, NothingServed, Served,
              LastAvail, RingName
<1>4. CASE SetNum
  <2>1. queue'.ring = queue.ring /\ queue'.nextAvail = queue.nextAvail
    BY <1>4 DEF SetNum, WriteQueueNum, LayoutInv, SetSize, Queue
  <2> QED
    BY <1>4, <2>1 DEF SetNum, WriteQueueNum, After, choices, IndexInv, NothingServed
<1>5. CASE MakeReady
  <2>1. queue'.ring = queue.ring /\ queue'.nextAvail = queue.nextAvail
    BY <1>5 DEF MakeReady, WriteQueueReady, LayoutInv, SetReady, Queue
  <2> QED
    BY <1>5, <2>1 DEF MakeReady, WriteQueueReady, After, choices, IndexInv, NothingServed
<1>6. ASSUME NEW r \in RingName, SetLow(r) \/ SetHigh(r)
      PROVE  IndexInv'
  <2>1. step # "run" /\ step' # "run"
    BY <1>6 DEF SetLow, SetHigh, LowStep, HighStep, After, RingName
  <2>2. irq' = irq /\ posted' = posted
    BY <1>6 DEF SetLow, SetHigh, WriteAddrLow, WriteAddrHigh, choices
  <2> QED
    BY <1>6, <2>1, <2>2, HalfKeepsIndices DEF IndexInv, NothingServed
<1>7. CASE Post
  <2>1. posted \in Nat /\ posted' = posted + 1 /\ LastAvail(queue) \in Nat
    BY <1>7, PostedIndex, LastAvailType DEF Post, LayoutInv, Idx
  <2> QED
    BY <1>7, <2>1 DEF Post, regs, IndexInv, Served, LastAvail
<1>8. CASE NotifyQueue
  <2>1. WriteQueueNotify(posted) /\ step = "run" /\ step' = "run" /\ posted' = posted
    BY <1>8, FoundPosted DEF NotifyQueue, choices
  <2>2. CASE queue' = queue /\ irq' = irq
    BY <2>1, <2>2 DEF IndexInv, Served, LastAvail
  <2>3. CASE ~(queue' = queue /\ irq' = irq)
    <3>1. /\ IsValid(queue) /\ posted # LastAvail(queue)
          /\ \E n \in 0 .. Dist(LastAvail(queue), posted) : queue' = ServeUpTo(queue, posted, n)
      BY <2>1, <2>3 DEF WriteQueueNotify
    <3>2. /\ posted \in Idx /\ LastAvail(queue) \in Idx /\ queue.ring["used"].idx \in Idx
          /\ LastAvail(queue) <= posted /\ queue.ring["used"].idx <= LastAvail(queue)
      BY <2>1, PostedIndex, LastAvailType DEF IndexInv, Served, LayoutInv, Queue, Ring, RingName
    <3>3. PICK n \in Idx : /\ n <= Dist(LastAvail(queue), posted)
                           /\ queue' = ServeUpTo(queue, posted, n)
      <4>1. Dist(LastAvail(queue), posted) \in Idx
        BY <3>2, DistType
      <4> QED BY <3>1, <4>1, SizeAssumption DEF Idx
    <3>4. /\ LastAvail(queue') = posted
          /\ queue'.ring["used"].idx = (queue.ring["used"].idx + n) % IdxMod
      BY <3>1, <3>2, <3>3, ServeType DEF LayoutInv
    <3>5. queue'.ring["used"].idx <= posted
      BY <3>2, <3>3, <3>4, StaysBehind
    <3>6. posted # 0 /\ posted <= posted
      BY <3>1, <3>2 DEF Idx
    <3> QED
      BY <2>1, <3>4, <3>5, <3>6 DEF IndexInv, Served
  <2> QED
    BY <2>2, <2>3
<1>9. CASE Acknowledged
  BY <1>9 DEF Acknowledged, WriteInterruptAck, choices, IndexInv, Served, LastAvail
<1>10. CASE Acknowledge \/ Driver \/ FeaturesOk
  BY <1>10, <1>1 DEF Acknowledge, Driver, FeaturesOk, WriteStatus, choices
<1>11. CASE CheckFeatures
  BY <1>11, <1>1 DEF CheckFeatures, regs, choices
<1>12. ASSUME NEW h \in Half,
              SelectOffered(h) \/ ReadOffered(h) \/ SelectAgreed(h) \/ WriteAgreed(h)
       PROVE  IndexInv'
  BY <1>12, <1>1
     DEF SelectOffered, ReadOffered, SelectAgreed, WriteAgreed, WriteDeviceFeaturesSel,
         WriteDriverFeaturesSel, WriteDriverFeatures, regs, choices
<1>13. CASE UNCHANGED vars
  BY <1>13, <1>1 DEF vars, regs, choices
<1> QED
  BY <1>2, <1>3, <1>4, <1>5, <1>6, <1>7, <1>8, <1>9, <1>10, <1>11, <1>12, <1>13 DEF DriverNext

\* However often the driver starts again, and whatever becomes of the entries of a
\* notification, the device has counted no more elements than it has taken entries and
\* taken no more than have been posted, and nothing is signalled before the first
\* request.  The driver must be able to write each address at once: else the device
\* reads the index elsewhere (VirtioQueue::reset, reset_device, process_queue_requests).
THEOREM IndicesAgree ==
  ASSUME HalfAddrs
  PROVE  DriverSpec => []IndicesAgreed
<1>1. DriverInit => IndexInv
  BY DEF DriverInit, Init, IndexInv, NothingServed, NewQueue, NoRing, NewRing
<1>2. IndexInv => IndicesAgreed
  BY DEF IndexInv, Served, IndicesAgreed
<1> QED
  BY <1>1, <1>2, IndexNext, LayoutInductive, PTL DEF DriverSpec
=============================================================================
