----------------------------- MODULE BlkDevice -----------------------------
(***************************************************************************)
(* The request path of the block device                                     *)
(* (src/axvirtio-blk/src/mmio/device.rs): a guest driver posts requests on  *)
(* the available ring and writes QUEUE_NOTIFY; the write traps, and the     *)
(* vCPU that made it runs handle_queue_notify, which works on a copy of the *)
(* queue and takes the lock of the queue vector only to publish.  Several   *)
(* vCPUs may be inside the device at once, and any of them may reset it.    *)
(*                                                                          *)
(* A step of a handler is one access to state that others can see: a lock   *)
(* acquisition with what is done under it, a read or a write of guest       *)
(* memory, a call of the backend.  The lock of the queues is held across    *)
(* steps only where add_used makes two writes to guest memory; the status   *)
(* lock only during a reset.                                                *)
(*                                                                          *)
(* Abstracted: the descriptors of a request are its kind (what parsing and  *)
(* the status write make of them), the data it moves and the length of the  *)
(* used element are left out.                                               *)
(***************************************************************************)
EXTENDS VirtioQueue, Sequences, SequencesExt, FiniteSets

CONSTANTS
  Vcpus,        \* the virtual CPUs that may notify or reset the device
  Heads,        \* the descriptors the driver uses as heads of a request
  Kinds,        \* the kinds of request the driver posts
  RingBase,     \* the address the driver gives to each ring
  Faults,       \* the accesses to guest memory that may fail
  Spurious,     \* the driver also notifies when it owes no notification
  EventIdx,     \* the driver has negotiated VIRTIO_F_RING_EVENT_IDX
  Resets,       \* the driver may reset the device and set it up again
  Pauses,       \* the driver may take QUEUE_READY back and set it again
  MaxPosts,     \* bound: the driver stops at this index, IdxMod if it never does
  NoOne         \* the owner of a free lock

Slots == 0 .. MaxQueueSize - 1

\* "ok", "unsupp" and "nodata" parse, the last being a write whose data cannot be read
\* from guest memory; "bad" does not parse but has a status byte; "nostatus" has no
\* writable status descriptor; "unmapped" parses, and writing its status byte fails.
Kind == {"ok", "unsupp", "nodata", "bad", "nostatus", "unmapped"}

\* read_avail_idx, read_avail_entry, the element and the index write of add_used, the
\* read of should_notify after a request and at the end of a handler.
Access == {"availIdx", "availEntry", "usedElem", "usedIdx", "usedFlags", "endFlags"}

Status == {"none", "OK", "IOERR", "UNSUPP"}

ASSUME DeviceAssumption ==
  /\ Heads \subseteq Slots
  /\ Kinds \subseteq Kind
  /\ Faults \subseteq Access
  /\ RingBase \in [RingName -> Addr \ {NullAddr}]
  /\ Spurious \in BOOLEAN /\ EventIdx \in BOOLEAN
  /\ Resets \in BOOLEAN /\ Pauses \in BOOLEAN /\ MaxPosts \in Nat
  /\ NoOne \notin Vcpus

\* The backend calls counted for one posting of a head; a bound of the model.
MaxExecs == 2

VARIABLES
  \* Guest memory.
  availIdx, availRing,   \* the available ring, written by the driver
  usedIdx, usedRing,     \* the used ring, written by the device
  chain,                 \* kind of the request at each head
  statusByte,            \* its status byte
  \* The driver.
  drv,                   \* its next register write, "run" once set up
  outstanding,           \* heads it has posted and not reaped
  lastUsed,              \* used index up to which it has reaped
  kick,                  \* it owes a QUEUE_NOTIFY
  irqPhase,              \* "wait" or "scan": its interrupt handler
  execs,                 \* backend calls made for a head since it was posted
  \* The device.
  driverOk,              \* DRIVER_OK in the status register
  queue,                 \* queues[0]
  irqStatus,             \* VIRTIO_MMIO_INT_VRING in interrupt_status
  queueLock, statusLock, \* owners of the two locks
  thr                    \* the handler running on each vCPU

mem    == <<availIdx, availRing, usedIdx, usedRing, chain, statusByte>>
driver == <<drv, outstanding, lastUsed, kick, irqPhase, execs>>
device == <<driverOk, queue, irqStatus, queueLock, statusLock>>
vars   == <<mem, driver, device, thr>>

----------------------------------------------------------------------------
(* Handlers. *)

PC == {"idle", "ready", "clone", "avail", "loop", "parse", "fail", "exec",
       "status", "used", "publish", "irq", "errUsed", "errPublish", "endIrq",
       "rstIrq", "rstQueue"}

\* The locals of handle_queue_notify and the functions it calls: the copy of the
\* queue, avail_idx, current_avail, desc_index, the parsed request and its status,
\* processed_requests.
Thread == [pc : PC, snap : Queue, seen : Idx, cur : Idx, desc : Slots,
           req : Kind, res : Status, errs : Seq(Slots)]

IdleThread == [pc |-> "idle", snap |-> NewQueue, seen |-> 0, cur |-> 0,
               desc |-> 0, req |-> "ok", res |-> "none", errs |-> <<>>]

\* On to the next iteration of the loop; the loop's own variables are dropped.
NextEntry(t) == [t EXCEPT !.pc = "loop", !.cur = WrapInc(@), !.desc = 0,
                          !.req = "ok", !.res = "none"]

At(v, pc) == thr[v].pc = pc
Become(v, t) == thr' = [thr EXCEPT ![v] = t]
Goto(v, pc) == Become(v, [thr[v] EXCEPT !.pc = pc])
Return(v) == Become(v, IdleThread)

\* Nobody waits for the lock of the queues.
NeverLocked == TRUE

QueueUnlocked == queueLock = NoOne
StatusUnlocked == statusLock = NoOne

----------------------------------------------------------------------------
(* The guest driver. *)

Init ==
  /\ availIdx = 0 /\ usedIdx = 0 /\ lastUsed = 0
  /\ availRing = [s \in Slots |-> 0] /\ usedRing = [s \in Slots |-> 0]
  /\ chain = [h \in Slots |-> "ok"] /\ statusByte = [h \in Slots |-> "none"]
  /\ drv = "init" /\ outstanding = {} /\ kick = FALSE /\ irqPhase = "wait"
  /\ execs = [h \in Slots |-> 0]
  /\ driverOk = FALSE /\ queue = NewQueue /\ irqStatus = FALSE
  /\ queueLock = NoOne /\ statusLock = NoOne
  /\ thr = [v \in Vcpus |-> IdleThread]

\* The driver clears the memory of the rings before it gives them to the device.
InitRings ==
  /\ drv = "init"
  /\ availIdx' = 0 /\ usedIdx' = 0 /\ lastUsed' = 0
  /\ availRing' = [s \in Slots |-> 0] /\ usedRing' = [s \in Slots |-> 0]
  /\ drv' = "desc"
  /\ UNCHANGED <<chain, statusByte, outstanding, kick, irqPhase, execs, device, thr>>

\* QUEUE_DESC_LOW, then QUEUE_AVAIL_LOW, then QUEUE_USED_LOW.
WriteRingAddr(r) ==
  /\ drv = r
  /\ QueueUnlocked
  /\ queue' = SetRingAddr(queue, r, RingBase[r])
  /\ drv' = CASE r = "desc" -> "avail" [] r = "avail" -> "used" [] OTHER -> "ready"
  /\ UNCHANGED <<mem, outstanding, lastUsed, kick, irqPhase, execs,
                 driverOk, irqStatus, queueLock, statusLock, thr>>

\* QUEUE_READY := 1 during initialisation; later the driver may stop the queue and start
\* it again, with requests outstanding and handlers at work.
WriteQueueReady ==
  /\ QueueUnlocked
  /\ \/ drv = "ready" /\ queue' = SetReady(queue, TRUE) /\ drv' = "ok"
     \/ drv = "run" /\ Pauses /\ queue' = SetReady(queue, ~queue.ready) /\ drv' = drv
  /\ UNCHANGED <<mem, outstanding, lastUsed, kick, irqPhase, execs,
                 driverOk, irqStatus, queueLock, statusLock, thr>>

\* STATUS := ... | DRIVER_OK
WriteDriverOk ==
  /\ drv = "ok"
  /\ StatusUnlocked
  /\ driverOk' = TRUE
  /\ drv' = "run"
  /\ UNCHANGED <<mem, outstanding, lastUsed, kick, irqPhase, execs,
                 queue, irqStatus, queueLock, statusLock, thr>>

\* With event indices the driver notifies only when the index it publishes passes
\* avail_event; the field lies behind the used ring and, cleared by InitRings, stays 0,
\* because the device never writes it.
AvailEvent == 0
NeedsKick(new) == EventIdx => new = WrapInc(AvailEvent)

Post(h, k) ==
  /\ drv = "run"
  /\ h \notin outstanding
  /\ availIdx < MaxPosts
  /\ availRing' = [availRing EXCEPT ![availIdx % MaxQueueSize] = h]
  /\ availIdx' = WrapInc(availIdx)
  /\ chain' = [chain EXCEPT ![h] = k]
  /\ statusByte' = [statusByte EXCEPT ![h] = "none"]
  /\ execs' = [execs EXCEPT ![h] = 0]
  /\ outstanding' = outstanding \cup {h}
  /\ kick' = (kick \/ NeedsKick(WrapInc(availIdx)))
  /\ UNCHANGED <<usedIdx, usedRing, drv, lastUsed, irqPhase, device, thr>>

\* INTERRUPT_ACK for the bit the driver read from INTERRUPT_STATUS.
AckInterrupt ==
  /\ drv = "run" /\ irqPhase = "wait"
  /\ irqStatus
  /\ irqStatus' = FALSE
  /\ irqPhase' = "scan"
  /\ UNCHANGED <<mem, drv, outstanding, lastUsed, kick, execs,
                 driverOk, queue, queueLock, statusLock, thr>>

Reap ==
  /\ irqPhase = "scan" /\ lastUsed # usedIdx
  /\ outstanding' = outstanding \ {usedRing[lastUsed % MaxQueueSize]}
  /\ lastUsed' = WrapInc(lastUsed)
  /\ UNCHANGED <<mem, drv, kick, irqPhase, execs, device, thr>>

ScanDone ==
  /\ irqPhase = "scan" /\ lastUsed = usedIdx
  /\ irqPhase' = "wait"
  /\ UNCHANGED <<mem, drv, outstanding, lastUsed, kick, execs, device, thr>>

----------------------------------------------------------------------------
(* QUEUE_NOTIFY: handle_queue_notify. *)

\* A driver may also notify when it owes nothing, or before it is set up.
Notify(v) ==
  /\ At(v, "idle")
  /\ kick \/ Spurious
  /\ Goto(v, "ready")
  /\ kick' = FALSE
  /\ UNCHANGED <<mem, drv, outstanding, lastUsed, irqPhase, execs, device>>

CheckReady(v) ==
  /\ At(v, "ready")
  /\ StatusUnlocked
  /\ IF driverOk THEN Goto(v, "clone") ELSE Return(v)
  /\ UNCHANGED <<mem, driver, device>>

\* The copy is taken under the lock; its addresses are looked at after.
CloneQueue(v) ==
  /\ At(v, "clone")
  /\ QueueUnlocked
  /\ IF queue.ready /\ HasAddrs(queue)
     THEN Become(v, [thr[v] EXCEPT !.pc = "avail", !.snap = queue])
     ELSE Return(v)
  /\ UNCHANGED <<mem, driver, device>>

----------------------------------------------------------------------------
(* process_queue_requests *)

ReadAvailIdx(v) ==
  /\ At(v, "avail")
  /\ \/ Become(v, [thr[v] EXCEPT !.pc = "loop", !.seen = availIdx,
                                !.cur = LastAvail(thr[v].snap)])
     \/ "availIdx" \in Faults /\ Return(v)
  /\ UNCHANGED <<mem, driver, device>>

\* An entry that cannot be read is skipped.
ReadAvailEntry(v) ==
  /\ At(v, "loop") /\ thr[v].cur # thr[v].seen
  /\ \/ Become(v, [thr[v] EXCEPT !.pc = "parse",
                     !.desc = availRing[AvailSlot(thr[v].snap, thr[v].cur)]])
     \/ "availEntry" \in Faults /\ Become(v, NextEntry(thr[v]))
  /\ UNCHANGED <<mem, driver, device>>

\* process_descriptor_chain calls parse_virtio_request, which follows the chain.
ParseRequest(v) ==
  /\ At(v, "parse")
  /\ LET k == chain[thr[v].desc]
     IN  Become(v, [thr[v] EXCEPT !.req = k,
                      !.pc = IF k \in {"bad", "nostatus"} THEN "fail" ELSE "exec"])
  /\ UNCHANGED <<mem, driver, device>>

\* Only a read, a write or a flush reaches the backend, which may fail it; the data of
\* a write is read first.
ReachesBackend(k) == k \notin {"unsupp", "nodata"}

Outcome(k) ==
  CASE k = "unsupp" -> {"UNSUPP"}
    [] k = "nodata" -> {"IOERR"}
    [] OTHER        -> {"OK", "IOERR"}

Execute(v) ==
  /\ At(v, "exec")
  /\ \E s \in Outcome(thr[v].req) :
       Become(v, [thr[v] EXCEPT !.pc = "status", !.res = s])
  /\ execs' = [execs EXCEPT ![thr[v].desc] =
                  IF ReachesBackend(thr[v].req) /\ @ < MaxExecs THEN @ + 1 ELSE @]
  /\ UNCHANGED <<mem, drv, outstanding, lastUsed, kick, irqPhase, device>>

\* write_status_byte finds the status descriptor by following the chain again.
StatusWritable(h) == chain[h] \notin {"nostatus", "unmapped"}

\* The status byte is not written before the element.
SkipStatus(v) ==
  /\ At(v, "status")
  /\ Goto(v, "used")
  /\ UNCHANGED <<mem, driver, device>>

\* add_used_buffer: a status byte that cannot be written ends the request here,
\* with no element on the used ring.
WriteStatus(v) ==
  /\ At(v, "status")
  /\ IF StatusWritable(thr[v].desc)
     THEN /\ statusByte' = [statusByte EXCEPT ![thr[v].desc] = thr[v].res]
          /\ Goto(v, "used")
     ELSE /\ Become(v, NextEntry(thr[v]))
          /\ UNCHANGED statusByte
  /\ UNCHANGED <<availIdx, availRing, usedIdx, usedRing, chain, driver, device>>

\* add_used, first half: the element, with the lock of the queues held.
WriteUsedElem(h) == usedRing' = [usedRing EXCEPT ![UsedSlot(queue)] = h]

\* add_used, second half: the index in the device and then in guest memory.
PublishUsedIdx ==
  /\ queue' = CountUsed(queue)
  /\ usedIdx' = CountUsed(queue).ring["used"].idx

\* The element is forgotten with the index.
ForgetUnpublished ==
  /\ "usedIdx" \in Faults
  /\ UNCHANGED <<queue, usedIdx>>

\* The write of the index fails after the device has counted the element.
CountUnpublished ==
  /\ "usedIdx" \in Faults
  /\ queue' = CountUsed(queue)
  /\ UNCHANGED usedIdx

\* The test of the flag the wrong way round.
NotifyIfSuppressed(q) == q.ring["used"] = NoRing

\* The flag of the used ring that should_notify reads, VIRTQ_USED_F_NO_NOTIFY, is
\* cleared by the driver with the ring and never set.
ShouldNotify(q) == q.ring["used"] # NoRing

AddUsed(v) ==
  /\ At(v, "used")
  /\ QueueUnlocked
  /\ \/ /\ IsValid(queue)
        /\ queueLock' = v
        /\ WriteUsedElem(thr[v].desc)
        /\ Goto(v, "publish")
     \/ /\ ~IsValid(queue) \/ "usedElem" \in Faults
        /\ Become(v, NextEntry(thr[v]))
        /\ UNCHANGED <<queueLock, usedRing>>
  /\ UNCHANGED <<availIdx, availRing, usedIdx, chain, statusByte, driver,
                 driverOk, queue, irqStatus, statusLock>>

Publish(v) ==
  /\ At(v, "publish")
  /\ \/ PublishUsedIdx /\ ShouldNotify(queue) /\ Goto(v, "irq")
     \/ /\ PublishUsedIdx
        /\ ~ShouldNotify(queue) \/ "usedFlags" \in Faults
        /\ Become(v, NextEntry(thr[v]))
     \/ CountUnpublished /\ Become(v, NextEntry(thr[v]))
  /\ queueLock' = NoOne
  /\ UNCHANGED <<availIdx, availRing, usedRing, chain, statusByte, driver,
                 driverOk, irqStatus, statusLock>>

TriggerInterrupt(v) ==
  /\ At(v, "irq")
  /\ irqStatus' = TRUE
  /\ Become(v, NextEntry(thr[v]))
  /\ UNCHANGED <<mem, driver, driverOk, queue, queueLock, statusLock>>

\* The head is not kept.
DropFailed(v) ==
  /\ At(v, "fail")
  /\ Become(v, NextEntry(thr[v]))
  /\ UNCHANGED <<mem, driver, device>>

\* The error branch of the loop: write_status_byte, whose own failure is only
\* logged, and the head is kept for later.
FailRequest(v) ==
  /\ At(v, "fail")
  /\ LET h == thr[v].desc
     IN  /\ statusByte' = IF StatusWritable(h) THEN [statusByte EXCEPT ![h] = "IOERR"]
                          ELSE statusByte
         /\ Become(v, [NextEntry(thr[v]) EXCEPT !.errs = Append(thr[v].errs, h)])
  /\ UNCHANGED <<availIdx, availRing, usedIdx, usedRing, chain, driver, device>>

----------------------------------------------------------------------------
(* The end of process_queue_requests: last_avail_idx, then the failed requests. *)

LoopOver(v) == At(v, "loop") /\ thr[v].cur = thr[v].seen

Unprocessed(t) == t.cur = LastAvail(t.snap) /\ t.errs = <<>>

NothingDone(v) ==
  /\ LoopOver(v) /\ Unprocessed(thr[v])
  /\ Return(v)
  /\ UNCHANGED <<mem, driver, device>>

\* From here the lock is held until every failed request is on the used ring.
FinishLoop(v) ==
  /\ LoopOver(v) /\ ~Unprocessed(thr[v])
  /\ QueueUnlocked
  /\ queue' = UpdateLastAvail(queue, thr[v].cur)
  /\ queueLock' = v
  /\ Goto(v, "errUsed")
  /\ UNCHANGED <<mem, driver, driverOk, irqStatus, statusLock>>

\* The same head again.
SameError(t) == [t EXCEPT !.pc = "errUsed"]

NextError(t) == [t EXCEPT !.pc = "errUsed", !.errs = Tail(@)]

AddUsedError(v) ==
  /\ At(v, "errUsed") /\ thr[v].errs # <<>>
  /\ \/ /\ IsValid(queue)
        /\ WriteUsedElem(Head(thr[v].errs))
        /\ Goto(v, "errPublish")
     \/ /\ ~IsValid(queue) \/ "usedElem" \in Faults
        /\ Become(v, NextError(thr[v]))
        /\ UNCHANGED usedRing
  /\ UNCHANGED <<availIdx, availRing, usedIdx, chain, statusByte, driver, device>>

PublishError(v) ==
  /\ At(v, "errPublish")
  /\ PublishUsedIdx \/ CountUnpublished
  /\ Become(v, NextError(thr[v]))
  /\ UNCHANGED <<availIdx, availRing, usedRing, chain, statusByte, driver,
                 driverOk, irqStatus, queueLock, statusLock>>

\* should_notify is asked whether or not anything failed.
ErrorsDone(v) ==
  /\ At(v, "errUsed") /\ thr[v].errs = <<>>
  /\ queueLock' = NoOne
  /\ \/ ShouldNotify(queue) /\ Goto(v, "endIrq")
     \/ (~ShouldNotify(queue) \/ "endFlags" \in Faults) /\ Return(v)
  /\ UNCHANGED <<mem, driver, driverOk, queue, irqStatus, statusLock>>

TriggerLast(v) ==
  /\ At(v, "endIrq")
  /\ irqStatus' = TRUE
  /\ Return(v)
  /\ UNCHANGED <<mem, driver, driverOk, queue, queueLock, statusLock>>

----------------------------------------------------------------------------
(* STATUS := 0: handle_status_write and reset_device. *)

\* The driver gives up the requests it has posted and its interrupt handler.
ResetBegin(v) ==
  /\ At(v, "idle") /\ drv = "run" /\ Resets
  /\ StatusUnlocked
  /\ statusLock' = v
  /\ driverOk' = FALSE
  /\ Goto(v, "rstIrq")
  /\ drv' = "reset"
  /\ outstanding' = {} /\ kick' = FALSE /\ irqPhase' = "wait"
  /\ UNCHANGED <<mem, lastUsed, execs, queue, irqStatus, queueLock>>

\* interrupt_status is not cleared.
ResetKeepsIrq(v) ==
  /\ At(v, "rstIrq")
  /\ Goto(v, "rstQueue")
  /\ UNCHANGED <<mem, driver, device>>

ResetRegisters(v) ==
  /\ At(v, "rstIrq")
  /\ irqStatus' = FALSE
  /\ Goto(v, "rstQueue")
  /\ UNCHANGED <<mem, driver, driverOk, queue, queueLock, statusLock>>

ResetQueues(v) ==
  /\ At(v, "rstQueue")
  /\ QueueUnlocked
  /\ queue' = ResetQueue(queue)
  /\ statusLock' = NoOne
  /\ Return(v)
  /\ drv' = "init"
  /\ UNCHANGED <<mem, outstanding, lastUsed, kick, irqPhase, execs,
                 driverOk, irqStatus, queueLock>>

----------------------------------------------------------------------------
(* The specification. *)

Handler(v) ==
  \/ CheckReady(v) \/ CloneQueue(v) \/ ReadAvailIdx(v) \/ ReadAvailEntry(v)
  \/ ParseRequest(v) \/ Execute(v) \/ WriteStatus(v) \/ AddUsed(v) \/ Publish(v)
  \/ TriggerInterrupt(v) \/ FailRequest(v) \/ NothingDone(v) \/ FinishLoop(v)
  \/ AddUsedError(v) \/ PublishError(v) \/ ErrorsDone(v) \/ TriggerLast(v)
  \/ ResetRegisters(v) \/ ResetQueues(v)

Setup ==
  \/ InitRings \/ WriteQueueReady \/ WriteDriverOk
  \/ \E r \in RingName : WriteRingAddr(r)

Next ==
  \/ Setup
  \/ \E h \in Heads, k \in Kinds : Post(h, k)
  \/ AckInterrupt \/ Reap \/ ScanDone
  \/ \E v \in Vcpus : Notify(v) \/ Handler(v) \/ ResetBegin(v)

\* A handler that has been entered runs to its end: it is hypervisor code on a vCPU
\* that is not given back to the guest before.  The driver sends the notification it
\* owes and serves its interrupts; it need not post, and need not reset.
Fairness ==
  /\ \A v \in Vcpus : WF_vars(Handler(v))
  /\ WF_vars(kick /\ \E v \in Vcpus : Notify(v))
  /\ WF_vars(AckInterrupt) /\ WF_vars(Reap) /\ WF_vars(ScanDone)

Spec == Init /\ [][Next]_vars
FairSpec == Spec /\ Fairness

----------------------------------------------------------------------------
(* Types. *)

TypeOK ==
  /\ availIdx \in Idx /\ usedIdx \in Idx /\ lastUsed \in Idx
  /\ availRing \in [Slots -> Slots] /\ usedRing \in [Slots -> Slots]
  /\ chain \in [Slots -> Kind] /\ statusByte \in [Slots -> Status]
  /\ drv \in RingName \cup {"init", "ready", "ok", "run", "reset"}
  /\ outstanding \subseteq Heads
  /\ kick \in BOOLEAN /\ irqPhase \in {"wait", "scan"}
  /\ execs \in [Slots -> 0 .. MaxExecs]
  /\ driverOk \in BOOLEAN /\ irqStatus \in BOOLEAN
  /\ queue \in Queue
  /\ queueLock \in Vcpus \cup {NoOne} /\ statusLock \in Vcpus \cup {NoOne}
  /\ thr \in [Vcpus -> Thread]

----------------------------------------------------------------------------
(* Properties that hold with any number of vCPUs inside the device. *)

\* While the device has a used ring, the index it counts with is the one the driver
\* reads, through resets and new set-ups made while other vCPUs are completing
\* requests, unless a write of the index has failed (UsedRing::add_used,
\* VirtioQueue::reset, set_used_ring_addr).
UsedIndexCoherent ==
  "usedIdx" \notin Faults /\ queue.ring["used"] # NoRing
    => usedIdx = queue.ring["used"].idx

\* When a handler is about to publish an index, the slot the index exposes holds the
\* head it has completed: no other vCPU has taken the slot or moved the index since
\* it wrote the element (add_used_buffer, process_queue_requests).
PublishesOwnElement ==
  \A v \in Vcpus :
    /\ At(v, "publish") => usedRing[UsedSlot(queue)] = thr[v].desc
    /\ At(v, "errPublish") => usedRing[UsedSlot(queue)] = Head(thr[v].errs)

\* The handler of v asks should_notify once more when its loop is over: it has taken
\* an entry.
EndsWithFlags(v) ==
  /\ thr[v].pc \in {"loop", "parse", "fail", "exec", "status", "used", "publish", "irq"}
  /\ thr[v].cur # LastAvail(thr[v].snap)

\* Completions the driver has not reaped are never left without an interrupt: either
\* one is pending, or the driver is scanning the ring, or a handler is on its way to
\* trigger_interrupt.  A read of the used ring's flags that fails after a request is
\* made up for at the end of the handler; only the last read, failing, loses it.
InterruptNotLost ==
  "endFlags" \notin Faults /\ drv \notin {"init", "reset"} /\ usedIdx # lastUsed
    => \/ irqStatus
       \/ irqPhase = "scan"
       \/ \E v \in Vcpus :
            \/ thr[v].pc \in {"irq", "endIrq"}
            \/ thr[v].pc \in {"errUsed", "errPublish"}
            \/ "usedFlags" \in Faults /\ EndsWithFlags(v)

----------------------------------------------------------------------------
(* Properties of one vCPU at a time: with two, see the runs that refute them. *)

\* Entries from index i up to index j.
Dist(i, j) == (j + IdxMod - i) % IdxMod

RingWindow(ring, i, j) ==
  {ring[(i + n) % MaxQueueSize] : n \in 0 .. Dist(i, j) - 1}

\* The completions the driver can see and has not reaped name requests it has
\* outstanding, each of them once.
CompletedOnce ==
  drv = "run" =>
    LET completed == RingWindow(usedRing, lastUsed, usedIdx)
    IN  /\ completed \subseteq outstanding
        /\ Cardinality(completed) = Dist(lastUsed, usedIdx)

\* The next available index the handler of v is going to take.
Cursor(v) ==
  CASE thr[v].pc = "loop" -> thr[v].cur
    [] thr[v].pc \in {"parse", "fail", "exec", "status", "used", "publish", "irq"}
         -> WrapInc(thr[v].cur)
    [] OTHER -> LastAvail(queue)

Waiting(v)  == RingWindow(availRing, Cursor(v), availIdx)
InHand(v)   == IF thr[v].pc \in {"parse", "fail", "exec", "status", "used", "publish"}
               THEN {thr[v].desc} ELSE {}
Counted     == RingWindow(usedRing, lastUsed, queue.ring["used"].idx)
Somewhere(v) == Waiting(v) \cup InHand(v) \cup ToSet(thr[v].errs) \cup Counted

\* Every request that is anywhere is outstanding and in exactly one place: waiting on
\* the available ring, being processed, kept as failed until the loop is over, or
\* counted on the used ring (process_queue_requests, add_used).
RequestConservation ==
  drv = "run" => \A v \in Vcpus :
    /\ Somewhere(v) \subseteq outstanding
    /\ Dist(Cursor(v), availIdx) + Cardinality(InHand(v)) + Len(thr[v].errs)
         + Dist(lastUsed, queue.ring["used"].idx) = Cardinality(Somewhere(v))

\* The steps that give a request up: read_avail_entry fails and the entry is skipped;
\* the status byte cannot be written; add_used fails, or refuses a queue that the
\* driver has stopped.
GivesUp(v, h) ==
  \/ "availEntry" \in Faults /\ At(v, "loop") /\ thr'[v].pc = "loop"
  \/ At(v, "status") /\ thr'[v].pc = "loop" /\ chain[h] = "unmapped"
  \/ /\ "usedElem" \in Faults \/ ~queue.ready
     /\ \/ At(v, "used") /\ thr'[v].pc = "loop"
        \/ At(v, "errUsed") /\ thr'[v].pc = "errUsed"

\* What was somewhere and is still outstanding stays somewhere, or is given up.
Kept(v) ==
  \A h \in (Somewhere(v) \ Somewhere(v)') \cap outstanding' : GivesUp(v, h)

AllKept == drv = "run" /\ drv' = "run" => \A v \in Vcpus : Kept(v)

\* In no other step is a request lost: as long as it is outstanding and the device is
\* not reset, what was somewhere stays somewhere.
LostOnlyByFailure == [][AllKept]_vars

\* When the driver is about to set DRIVER_OK again after a reset, nothing is left of the
\* time before it: no interrupt is pending and both ring positions are at the start
\* (reset_device; update_last_avail_idx and trigger_interrupt at the end of a handler).
FreshSetup ==
  drv = "ok" => ~irqStatus /\ LastAvail(queue) = 0 /\ usedIdx = 0

----------------------------------------------------------------------------
(* Liveness, under FairSpec. *)

\* Every request the driver posts is completed and reaped, or given up by a reset.
RequestsServed ==
  \A h \in Heads : h \in outstanding ~> h \notin outstanding

\* A reset ends, although it waits for the queue lock with the status lock held while
\* handlers on the other vCPUs take the one and wait for the other.
ResetEnds ==
  \A v \in Vcpus : At(v, "rstIrq") ~> At(v, "idle")
=============================================================================
