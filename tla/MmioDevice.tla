----------------------------- MODULE MmioDevice -----------------------------
(***************************************************************************)
(* The registers of the block device (mmio_read and mmio_write of           *)
(* src/axvirtio-blk/src/mmio/device.rs): status and feature negotiation, the *)
(* configuration of the queue, interrupt status, reset.  One action per     *)
(* register a guest can write, with any value of a small set; each handler  *)
(* is one step, a notification too, with every outcome that failing         *)
(* accesses to guest memory can give it; module BlkDevice has its steps.    *)
(*                                                                          *)
(* Status and features are sets of flag names; a feature word is half 0 or  *)
(* half 1 of the 64 bits.  There is one queue (DEFAULT_NUM_QUEUES), so a    *)
(* write of QUEUE_SEL can only select queue 0 again, and config_generation  *)
(* is never anything but 0: neither is here.                                *)
(***************************************************************************)
EXTENDS VirtioQueue

CONSTANTS
  Bits,          \* names of the feature bits of one half
  Offered,       \* device_features
  Selectors,     \* values written to the two feature selectors
  AvailIdxs,     \* values the guest has put in the available index
  QueueNums,     \* 32-bit values written to QUEUE_NUM
  AckValues,     \* sets of interrupt bits written to INTERRUPT_ACK
  StatusValues   \* sets of status flags written to STATUS; {} is a reset

Half == {0, 1}
Features == [Half -> SUBSET Bits]
NoFeatures == [h \in Half |-> {}]
Flag == {"ACKNOWLEDGE", "DRIVER", "DRIVER_OK", "FEATURES_OK", "NEEDS_RESET", "FAILED"}
IrqBit == {"vring", "config"}

ASSUME RegisterAssumption ==
  /\ Offered \in Features
  /\ Selectors \subseteq Nat /\ 0 \in Selectors
  /\ AvailIdxs \subseteq Idx
  /\ QueueNums \subseteq Nat
  /\ AckValues \subseteq SUBSET IrqBit
  /\ StatusValues \subseteq SUBSET Flag

VARIABLES
  status,           \* status
  features,         \* driver_features
  devSel, drvSel,   \* device_features_sel, driver_features_sel
  irq,              \* interrupt_status
  queue             \* queues[0]

regs == <<status, features, devSel, drvSel, irq, queue>>

Init ==
  /\ status = {} /\ features = NoFeatures
  /\ devSel = 0 /\ drvSel = 0 /\ irq = {}
  /\ queue = NewQueue

\* is_device_ready
DeviceReady == "DRIVER_OK" \in status

Subset(f, g) == \A h \in Half : f[h] \subseteq g[h]

----------------------------------------------------------------------------
(* Features and status. *)

WriteDeviceFeaturesSel(s) ==
  /\ devSel' = s
  /\ UNCHANGED <<status, features, drvSel, irq, queue>>

WriteDriverFeaturesSel(s) ==
  /\ drvSel' = s
  /\ UNCHANGED <<status, features, devSel, irq, queue>>

\* A read of DEVICE_FEATURES.
DeviceFeaturesWord == IF devSel \in Half THEN Offered[devSel] ELSE {}

\* The selector is not looked at.
WriteLowFeatures(word) ==
  /\ features' = [features EXCEPT ![0] = word]
  /\ UNCHANGED <<status, devSel, drvSel, irq, queue>>

\* DRIVER_FEATURES: one half; other selectors are ignored.
WriteDriverFeatures(word) ==
  /\ features' = IF drvSel \in Half THEN [features EXCEPT ![drvSel] = word] ELSE features
  /\ UNCHANGED <<status, devSel, drvSel, irq, queue>>

\* handle_status_write: FEATURES_OK is granted only for features that are offered.
Granted(flags) ==
  IF "FEATURES_OK" \in flags /\ ~Subset(features, Offered)
  THEN (flags \ {"FEATURES_OK"}) \cup {"FAILED"}
  ELSE flags

WriteStatus(flags) ==
  /\ flags # {}
  /\ status' = Granted(flags)
  /\ UNCHANGED <<features, devSel, drvSel, irq, queue>>

\* interrupt_status is not cleared.
ResetExceptIrq ==
  /\ status' = {} /\ features' = NoFeatures
  /\ devSel' = 0 /\ drvSel' = 0 /\ irq' = irq
  /\ queue' = ResetQueue(queue)

\* STATUS := 0, reset_device.
Reset ==
  /\ status' = {} /\ features' = NoFeatures
  /\ devSel' = 0 /\ drvSel' = 0 /\ irq' = {}
  /\ queue' = ResetQueue(queue)

----------------------------------------------------------------------------
(* The queue and its interrupt. *)

\* The value is truncated to 16 bits.
WriteQueueNum(n) ==
  /\ queue' = SetSize(queue, n % IdxMod)
  /\ UNCHANGED <<status, features, devSel, drvSel, irq>>

WriteQueueReady(b) ==
  /\ queue' = SetReady(queue, b)
  /\ UNCHANGED <<status, features, devSel, drvSel, irq>>

\* QUEUE_DESC_LOW, QUEUE_AVAIL_LOW, QUEUE_USED_LOW and the three _HIGH: the other half
\* is taken from the address in force.
WriteAddrLow(r, w) ==
  /\ queue' = SetRingAddr(queue, r, [hi |-> queue.addr[r].hi, lo |-> w])
  /\ UNCHANGED <<status, features, devSel, drvSel, irq>>

WriteAddrHigh(r, w) ==
  /\ queue' = SetRingAddr(queue, r, [hi |-> w, lo |-> queue.addr[r].lo])
  /\ UNCHANGED <<status, features, devSel, drvSel, irq>>

Dist(i, j) == (j + IdxMod - i) % IdxMod

\* The entries from last_avail_idx up to index i taken, and n of them counted on the
\* used ring.
ServeUpTo(q, i, n) ==
  [UpdateLastAvail(q, i) EXCEPT !.ring["used"].idx = (@ + n) % IdxMod]

\* QUEUE_NOTIFY for queue 0, i being the index in guest memory.  An entry that cannot be
\* read, a status byte that cannot be written and an element that cannot be written
\* leave an entry uncounted.  Whether an interrupt is raised depends on the flags in
\* guest memory, which are looked at even if nothing was counted and may be unreadable.
\* Nothing happens where device or queue is not ready, the index cannot be read, or
\* there is no new entry.
WriteQueueNotify(i) ==
  /\ \/ /\ DeviceReady /\ IsValid(queue) /\ i # LastAvail(queue)
        /\ \E n \in 0 .. Dist(LastAvail(queue), i) : queue' = ServeUpTo(queue, i, n)
        /\ irq' \in {irq, irq \cup {"vring"}}
     \/ UNCHANGED <<queue, irq>>
  /\ UNCHANGED <<status, features, devSel, drvSel>>

WriteInterruptAck(bits) ==
  /\ irq' = irq \ bits
  /\ UNCHANGED <<status, features, devSel, drvSel, queue>>

----------------------------------------------------------------------------
(* The device under a guest that writes any register at any time. *)

Next ==
  \/ \E s \in Selectors : WriteDeviceFeaturesSel(s) \/ WriteDriverFeaturesSel(s)
  \/ \E word \in SUBSET Bits : WriteDriverFeatures(word)
  \/ \E flags \in StatusValues : WriteStatus(flags)
  \/ Reset
  \/ \E n \in QueueNums : WriteQueueNum(n)
  \/ \E b \in BOOLEAN : WriteQueueReady(b)
  \/ \E r \in RingName, w \in Word : WriteAddrLow(r, w) \/ WriteAddrHigh(r, w)
  \/ \E i \in AvailIdxs : WriteQueueNotify(i)
  \/ \E bits \in AckValues : WriteInterruptAck(bits)

Spec == Init /\ [][Next]_regs

----------------------------------------------------------------------------
(* Properties. *)

\* Every register and field keeps its type (the ranges of VirtioMmioBlockDevice,
\* VirtioQueue and the rings).
TypeOK ==
  /\ status \subseteq Flag
  /\ features \in Features
  /\ devSel \in Selectors /\ drvSel \in Selectors
  /\ irq \subseteq IrqBit
  /\ queue \in Queue

\* Whatever the guest writes and in whatever order, a ring object exists exactly for
\* an address that is not zero, has that address as its base, and is never empty: the
\* three `is not 0` tests of handle_queue_notify stand for the three `is Some` tests
\* of the queue's methods (set_desc_table_addr, set_avail_ring_addr,
\* set_used_ring_addr, reset).
RingsMatchAddrs == RingsMatch(queue)

\* Index and slot go round together: where the 16-bit index wraps, so does the slot,
\* for every size the guest can have got accepted.  A size that did not divide 2^16
\* would skip or repeat slots there (set_size; add_used, process_queue_requests).
SlotsFollowIndex ==
  LET sizes == ({queue.size} \cup {queue.ring[r].size : r \in RingName}) \ {0}
  IN  \A n \in sizes, i \in Idx : WrapInc(i) % n = ((i % n) + 1) % n

\* What a step leaves of one ring.
RingKept(r) ==
  /\ queue'.ring[r].base = queue.ring[r].base
  /\ queue'.ring[r].size = queue.ring[r].size
  /\ queue'.ring[r].idx # queue.ring[r].idx
       => /\ DeviceReady /\ IsValid(queue)
          /\ UNCHANGED <<status, queue.size, queue.ready, queue.addr>>

\* What a step leaves of the rings that exist.
RingsKept ==
  /\ \A r \in RingName : queue.ring[r] # NoRing => RingKept(r)
  /\ queue.ring["used"] # NoRing
       => Dist(queue.ring["used"].idx, queue'.ring["used"].idx)
            <= Dist(LastAvail(queue), LastAvail(queue'))

\* Until the device is reset, a ring that exists neither moves nor changes its size,
\* however the guest rewrites QUEUE_NUM, QUEUE_READY and the addresses; its index moves
\* only by a notification of a queue that is ready, not by any configuration; and the
\* used index goes forward, by no more entries than have been taken from the available
\* ring (set_size, set_ready, the address setters, process_queue_requests).  The slot
\* an available index stands for does depend on QUEUE_NUM, see AvailSlot.
RingsFixedUntilReset == [][Reset \/ RingsKept]_regs
=============================================================================
