----------------------------- MODULE MmioDriver -----------------------------
(***************************************************************************)
(* The device of MmioDevice with a driver that initialises it in the order  *)
(* of the virtio specification (the beginning of which is the repository's  *)
(* test_driver_initialization_sequence), uses it, resets it and initialises *)
(* it again, each time with features, a queue size and addresses of its     *)
(* choice.  Each step of the driver is one register access, that is one     *)
(* action of the device.  The driver is not part of src/: it is what the    *)
(* registers are for.                                                       *)
(***************************************************************************)
EXTENDS MmioDevice

CONSTANTS
  Sizes,      \* the queue sizes the driver may choose
  Addrs,      \* the addresses it may choose for a ring
  Wanted,     \* the features it can use
  MaxPosts    \* bound on the requests it posts between two resets

ASSUME DriverAssumption ==
  /\ Sizes \subseteq PowersOfTwo \cap (1 .. MaxQueueSize)
  /\ Addrs \subseteq Addr \ {NullAddr}
  /\ Wanted \in Features
  /\ MaxPosts \in 0 .. IdxMod - 1

VARIABLES
  step,       \* the next access of the initialisation; "run" after, "failed"
  agreed,     \* the features it has chosen among those it read
  size,       \* the queue size it has chosen
  addr,       \* the addresses it has chosen
  posted      \* the available index it has written to guest memory

choices == <<agreed, size, addr, posted>>
vars == <<regs, step, choices>>

\* The accesses that follow FEATURES_OK, in order.
After == [num |-> "descLow", descLow |-> "descHigh", descHigh |-> "availLow",
          availLow |-> "availHigh", availHigh |-> "usedLow", usedLow |-> "usedHigh",
          usedHigh |-> "ready", ready |-> "driverOk", driverOk |-> "run"]

LowStep  == [desc |-> "descLow", avail |-> "availLow", used |-> "usedLow"]
HighStep == [desc |-> "descHigh", avail |-> "availHigh", used |-> "usedHigh"]

DriverInit ==
  /\ Init
  /\ step = "reset" /\ agreed = NoFeatures
  /\ size = MaxQueueSize /\ addr = [r \in RingName |-> NullAddr] /\ posted = 0

----------------------------------------------------------------------------
(* Reset and negotiation. *)

\* The driver resets first of all, again at any time, and gives up its requests.
\* It lays out its rings anew.
DriverReset ==
  /\ Reset
  /\ step' = "acknowledge" /\ agreed' = NoFeatures /\ posted' = 0
  /\ \E n \in Sizes, a \in Addrs, d \in Addrs :
       size' = n /\ addr' = [r \in RingName |-> IF r = "desc" THEN d ELSE a]

Acknowledge ==
  /\ step = "acknowledge"
  /\ WriteStatus({"ACKNOWLEDGE"}) /\ step' = "driver"
  /\ UNCHANGED choices

Driver ==
  /\ step = "driver"
  /\ WriteStatus({"ACKNOWLEDGE", "DRIVER"}) /\ step' = "devSel1"
  /\ UNCHANGED choices

\* Half 1, then half 0: select, read what is offered, keep what is wanted of it.
SelectOffered(h) ==
  /\ step = (IF h = 1 THEN "devSel1" ELSE "devSel0")
  /\ WriteDeviceFeaturesSel(h)
  /\ step' = (IF h = 1 THEN "read1" ELSE "read0")
  /\ UNCHANGED choices

ReadOffered(h) ==
  /\ step = (IF h = 1 THEN "read1" ELSE "read0")
  /\ \E word \in SUBSET (DeviceFeaturesWord \cap Wanted[h]) :
       agreed' = [agreed EXCEPT ![h] = word]
  /\ step' = (IF h = 1 THEN "devSel0" ELSE "drvSel1")
  /\ UNCHANGED <<regs, size, addr, posted>>

SelectAgreed(h) ==
  /\ step = (IF h = 1 THEN "drvSel1" ELSE "drvSel0")
  /\ WriteDriverFeaturesSel(h)
  /\ step' = (IF h = 1 THEN "write1" ELSE "write0")
  /\ UNCHANGED choices

WriteAgreed(h) ==
  /\ step = (IF h = 1 THEN "write1" ELSE "write0")
  /\ WriteDriverFeatures(agreed[h])
  /\ step' = (IF h = 1 THEN "drvSel0" ELSE "featuresOk")
  /\ UNCHANGED choices

FeaturesOk ==
  /\ step = "featuresOk"
  /\ WriteStatus({"ACKNOWLEDGE", "DRIVER", "FEATURES_OK"}) /\ step' = "check"
  /\ UNCHANGED choices

\* The driver reads STATUS back.
CheckFeatures ==
  /\ step = "check"
  /\ step' = IF "FEATURES_OK" \in status THEN "num" ELSE "failed"
  /\ UNCHANGED <<regs, choices>>

----------------------------------------------------------------------------
(* The queue. *)

SetNum ==
  /\ step = "num"
  /\ WriteQueueNum(size) /\ step' = After[step]
  /\ UNCHANGED choices

SetLow(r) ==
  /\ step = LowStep[r]
  /\ WriteAddrLow(r, addr[r].lo) /\ step' = After[step]
  /\ UNCHANGED choices

SetHigh(r) ==
  /\ step = HighStep[r]
  /\ WriteAddrHigh(r, addr[r].hi) /\ step' = After[step]
  /\ UNCHANGED choices

MakeReady ==
  /\ step = "ready"
  /\ WriteQueueReady(TRUE) /\ step' = After[step]
  /\ UNCHANGED choices

DriverOk ==
  /\ step = "driverOk"
  /\ WriteStatus({"ACKNOWLEDGE", "DRIVER", "FEATURES_OK", "DRIVER_OK"})
  /\ step' = After[step]
  /\ UNCHANGED choices

----------------------------------------------------------------------------
(* Operation. *)

Post ==
  /\ step = "run" /\ posted < MaxPosts
  /\ posted' = posted + 1
  /\ UNCHANGED <<regs, step, agreed, size, addr>>

\* The device reads the index where it believes the available ring to be; elsewhere
\* than in the driver's ring it may find anything.
IndexFound == IF queue.ring["avail"].base = addr["avail"] THEN {posted} ELSE Idx

NotifyQueue ==
  /\ step = "run"
  /\ \E i \in IndexFound : WriteQueueNotify(i)
  /\ UNCHANGED <<step, choices>>

Acknowledged ==
  /\ step = "run" /\ irq # {}
  /\ WriteInterruptAck(irq)
  /\ UNCHANGED <<step, choices>>

DriverNext ==
  \/ DriverReset \/ Acknowledge \/ Driver \/ FeaturesOk \/ CheckFeatures
  \/ \E h \in Half :
       SelectOffered(h) \/ ReadOffered(h) \/ SelectAgreed(h) \/ WriteAgreed(h)
  \/ SetNum \/ MakeReady \/ DriverOk
  \/ \E r \in RingName : SetLow(r) \/ SetHigh(r)
  \/ Post \/ NotifyQueue \/ Acknowledged

DriverSpec == DriverInit /\ [][DriverNext]_vars

----------------------------------------------------------------------------
(* Properties. *)

\* When initialisation is over the device works with what the driver has chosen: the
\* rings have its addresses and its size, also after a reset that followed another
\* size and other addresses (set_size, the address registers, reset_device).
LayoutAgreed ==
  step = "run" =>
    /\ IsValid(queue) /\ queue.size = size
    /\ \A r \in RingName :
         queue.ring[r].base = addr[r] /\ queue.ring[r].size = size

\* Both sides count from the same start in every session: the device has taken no more
\* entries than the driver has posted and counted no more elements than it has taken,
\* and while the driver has posted nothing it has no interrupt of an earlier session
\* (VirtioQueue::reset, reset_device, process_queue_requests).
IndicesAgreed ==
  step = "run" =>
    /\ queue.ring["used"].idx <= LastAvail(queue) /\ LastAvail(queue) <= posted
    /\ posted = 0 => irq = {}

\* The device ends with exactly the features the driver has agreed to, all of them
\* offered, and the driver is never refused FEATURES_OK for features it has read
\* (DRIVER_FEATURES with its selector, handle_status_write).
FeaturesAgreed ==
  /\ step # "failed"
  /\ step \in {"num", "run"} =>
       /\ features = agreed /\ Subset(features, Offered)
       /\ {"FEATURES_OK"} \subseteq status /\ "FAILED" \notin status
=============================================================================
