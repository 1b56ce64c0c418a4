-------------------------- MODULE BlkDeviceProofs --------------------------
(***************************************************************************)
(* Proofs about the request path, for any number of vCPUs inside the device, *)
(* any queue size, any width of the indices, any requests and any set of    *)
(* failing memory accesses.                                                 *)
(*                                                                          *)
(* IInv is inductive: types, the ring objects of the queue and of its       *)
(* copies, who holds which lock, and what the driver's phase says of the    *)
(* queue.  Each safety property follows as an invariant relative to IInv.   *)
(***************************************************************************)
EXTENDS BlkDevice, VirtioQueueProofs

\* The two locks are held exactly where the code holds them: the queue lock from
\* the element of add_used to its index and through the failed requests of the end of
\* process_queue_requests, the status lock through reset_device.
LockDiscipline ==
  \A v \in Vcpus :
    /\ queueLock = v <=> thr[v].pc \in {"publish", "errUsed", "errPublish"}
    /\ statusLock = v <=> thr[v].pc \in {"rstIrq", "rstQueue"}

\* Where a handler works on its copy of the queue.
OnCopy == {"avail", "loop", "parse", "fail", "exec", "status", "used", "publish", "irq"}

\* A handler works on a copy whose addresses are set, and the queue cannot lose its
\* own while a handler is between an element and its index.
HandlersOK ==
  \A v \in Vcpus :
    /\ RingsMatch(thr[v].snap)
    /\ thr[v].pc \in OnCopy => HasAddrs(thr[v].snap)
    /\ At(v, "errPublish") => thr[v].errs # <<>>
    /\ thr[v].pc \in {"publish", "errPublish"} => IsValid(queue)

\* The device has a used ring from the driver's write of its address to the end of a
\* reset, and until then nothing moves the index the driver has cleared.
PhasesOK ==
  /\ drv \in {"init", "desc", "avail", "used"} => queue.addr["used"] = NullAddr
  /\ drv \in {"ready", "ok", "run"} => queue.addr["used"] # NullAddr
  /\ drv \in {"desc", "avail", "used"} => usedIdx = 0 /\ lastUsed = 0
  /\ \A v \in Vcpus : thr[v].pc \in {"rstIrq", "rstQueue"} => drv = "reset"

IInv ==
  /\ TypeOK
  /\ RingsMatch(queue)
  /\ LockDiscipline
  /\ HandlersOK
  /\ PhasesOK

----------------------------------------------------------------------------
(* Handler records. *)

LEMMA IdleThreadType == IdleThread \in Thread /\ RingsMatch(IdleThread.snap)
  <1>1. 0 \in Idx /\ 0 \in Slots
    BY SizeAssumption DEF Idx, Slots
  <1>2. <<>> \in Seq(Slots)
    OBVIOUS
  <1> QED BY <1>1, <1>2, NewQueueType DEF IdleThread, Thread, PC, Kind, Status

LEMMA NextEntryType ==
  ASSUME NEW t \in Thread
  PROVE  /\ NextEntry(t) \in Thread
         /\ NextEntry(t).pc = "loop"
         /\ NextEntry(t).snap = t.snap /\ NextEntry(t).errs = t.errs
  <1>1. WrapInc(t.cur) \in Idx
    BY WrapIncType DEF Thread
  <1>2. 0 \in Slots
    BY SizeAssumption DEF Slots
  <1> QED BY <1>1, <1>2 DEF NextEntry, Thread, PC, Kind, Status

LEMMA NextErrorType ==
  ASSUME NEW t \in Thread, t.errs # <<>>
  PROVE  /\ NextError(t) \in Thread
         /\ NextError(t).pc = "errUsed" /\ NextError(t).snap = t.snap
  <1>1. Tail(t.errs) \in Seq(Slots)
    BY DEF Thread
  <1> QED BY <1>1 DEF NextError, Thread, PC

LEMMA GotoType ==
  ASSUME NEW t \in Thread, NEW pc \in PC
  PROVE  [t EXCEPT !.pc = pc] \in Thread
  BY DEF Thread

\* What Become changes: one handler.
LEMMA BecomeEffect ==
  ASSUME NEW v \in Vcpus, NEW t \in Thread, thr \in [Vcpus -> Thread], Become(v, t)
  PROVE  /\ thr' \in [Vcpus -> Thread]
         /\ thr'[v] = t
         /\ \A w \in Vcpus \ {v} : thr'[w] = thr[w]
  BY DEF Become
----------------------------------------------------------------------------
(* Types. *)

LEMMA ZeroType == 0 \in Idx /\ 0 \in Slots
  BY SizeAssumption DEF Idx, Slots

\* Every step of the driver, of a handler and of a reset keeps the types.
LEMMA TypeStep ==
  ASSUME IInv, [Next]_vars
  PROVE  TypeOK'
  <1> USE DEF IInv
  <1>q. queue \in Queue /\ RingsMatch(queue)
    BY DEF TypeOK
  <1>t. thr \in [Vcpus -> Thread]
    BY DEF TypeOK
  <1>1. CASE InitRings
    BY <1>1, ZeroType DEF InitRings, TypeOK, device, RingName
  <1>2. ASSUME NEW r \in RingName, WriteRingAddr(r)
        PROVE  TypeOK'
    <2>1. RingBase[r] \in Addr
      BY DeviceAssumption
    <2>2. queue' \in Queue
      BY <1>2, <1>q, <2>1, SetRingAddrType DEF WriteRingAddr
    <2> QED BY <1>2, <2>2 DEF WriteRingAddr, TypeOK, mem, RingName
  <1>3. CASE WriteQueueReady
    <2>1. queue' \in Queue
      BY <1>3, <1>q, SetReadyType DEF WriteQueueReady
    <2> QED BY <1>3, <2>1 DEF WriteQueueReady, TypeOK, mem
  <1>4. CASE WriteDriverOk
    BY <1>4 DEF WriteDriverOk, TypeOK, mem
  <1>5. ASSUME NEW h \in Heads, NEW k \in Kinds, Post(h, k)
        PROVE  TypeOK'
    <2>1. h \in Slots /\ k \in Kind
      BY DeviceAssumption
    <2>2. WrapInc(availIdx) \in Idx
      BY WrapIncType DEF TypeOK
    <2>3. (kick \/ NeedsKick(WrapInc(availIdx))) \in BOOLEAN
      OBVIOUS
    <2>4. kick' \in BOOLEAN
      BY <1>5, <2>3 DEF Post
    <2>5. execs' \in [Slots -> 0 .. MaxExecs]
      BY <1>5, <2>1 DEF Post, TypeOK, MaxExecs
    <2> QED BY <1>5, <2>1, <2>2, <2>4, <2>5, ZeroType DEF Post, TypeOK, device, Status
  <1>6. CASE AckInterrupt
    BY <1>6 DEF AckInterrupt, TypeOK, mem
  <1>7. CASE Reap
    <2>1. WrapInc(lastUsed) \in Idx
      BY WrapIncType DEF TypeOK
    <2> QED BY <1>7, <2>1 DEF Reap, TypeOK, mem, device
  <1>8. CASE ScanDone
    BY <1>8 DEF ScanDone, TypeOK, mem, device
  <1>9. ASSUME NEW v \in Vcpus, Notify(v) \/ Handler(v) \/ ResetBegin(v)
        PROVE  TypeOK'
    <2>t. thr[v] \in Thread
      BY <1>t
    <2>i. IdleThread \in Thread
      BY IdleThreadType
    <2>n. NextEntry(thr[v]) \in Thread
      BY <2>t, NextEntryType
    <2>g. \A pc \in PC : [thr[v] EXCEPT !.pc = pc] \in Thread
      BY <2>t, GotoType
    <2>1. CASE Notify(v)
      <3>1. thr' \in [Vcpus -> Thread]
        BY <2>1, <1>t, <2>g, BecomeEffect DEF Notify, Goto, PC
      <3> QED BY <2>1, <3>1 DEF Notify, TypeOK, mem, device
    <2>2. CASE CheckReady(v)
      <3>1. thr' \in [Vcpus -> Thread]
        BY <2>2, <1>t, <2>g, <2>i, BecomeEffect DEF CheckReady, Goto, Return, PC
      <3> QED BY <2>2, <3>1 DEF CheckReady, TypeOK, mem, driver, device
    <2>3. CASE CloneQueue(v)
      <3>1. [thr[v] EXCEPT !.pc = "avail", !.snap = queue] \in Thread
        BY <1>q, <2>t DEF Thread, PC
      <3>2. thr' \in [Vcpus -> Thread]
        BY <2>3, <1>t, <2>i, <3>1, BecomeEffect DEF CloneQueue, Return
      <3> QED BY <2>3, <3>2 DEF CloneQueue, TypeOK, mem, driver, device
    <2>4. CASE ReadAvailIdx(v)
      <3>1. LastAvail(thr[v].snap) \in Idx
        BY <2>t, LastAvailType DEF Thread
      <3>2. [thr[v] EXCEPT !.pc = "loop", !.seen = availIdx,
                           !.cur = LastAvail(thr[v].snap)] \in Thread
        BY <2>t, <3>1 DEF Thread, PC, TypeOK
      <3>3. thr' \in [Vcpus -> Thread]
        BY <2>4, <1>t, <2>i, <3>2, BecomeEffect DEF ReadAvailIdx, Return
      <3> QED BY <2>4, <3>3 DEF ReadAvailIdx, TypeOK, mem, driver, device
    <2>5. CASE ReadAvailEntry(v)
      <3>1. RingsMatch(thr[v].snap) /\ HasAddrs(thr[v].snap) /\ thr[v].snap \in Queue
            /\ thr[v].cur \in Idx
        BY <2>5, <2>t DEF ReadAvailEntry, At, HandlersOK, OnCopy, Thread
      <3>2. AvailSlot(thr[v].snap, thr[v].cur) \in Slots
        BY <3>1, SlotRange DEF Slots
      <3>3. [thr[v] EXCEPT !.pc = "parse",
                !.desc = availRing[AvailSlot(thr[v].snap, thr[v].cur)]] \in Thread
        BY <2>t, <3>2 DEF Thread, PC, TypeOK
      <3>4. thr' \in [Vcpus -> Thread]
        BY <2>5, <1>t, <2>n, <3>3, BecomeEffect DEF ReadAvailEntry
      <3> QED BY <2>5, <3>4 DEF ReadAvailEntry, TypeOK, mem, driver, device
    <2>6. CASE ParseRequest(v)
      <3> DEFINE k == chain[thr[v].desc]
                 pc == IF k \in {"bad", "nostatus"} THEN "fail" ELSE "exec"
      <3>1. k \in Kind /\ pc \in PC
        BY <2>t DEF Thread, TypeOK, PC
      <3>2. [thr[v] EXCEPT !.req = k, !.pc = pc] \in Thread
        BY <2>t, <3>1 DEF Thread
      <3>3. thr' \in [Vcpus -> Thread]
        BY <2>6, <1>t, <3>2, BecomeEffect DEF ParseRequest
      <3> QED BY <2>6, <3>3 DEF ParseRequest, TypeOK, mem, driver, device
    <2>7. CASE Execute(v)
      <3>1. PICK s \in Outcome(thr[v].req) :
              Become(v, [thr[v] EXCEPT !.pc = "status", !.res = s])
        BY <2>7 DEF Execute
      <3>2. s \in Status
        BY <3>1 DEF Outcome, Status
      <3>3. [thr[v] EXCEPT !.pc = "status", !.res = s] \in Thread
        BY <2>t, <3>2 DEF Thread, PC
      <3>4. thr' \in [Vcpus -> Thread]
        BY <1>t, <3>1, <3>3, BecomeEffect
      <3> DEFINE n == execs[thr[v].desc]
                 m == IF ReachesBackend(thr[v].req) /\ n < MaxExecs THEN n + 1 ELSE n
      <3>5. n \in 0 .. MaxExecs
        BY <2>t DEF TypeOK, Thread
      <3>6. m \in 0 .. MaxExecs
        BY <3>5 DEF MaxExecs
      <3>7. execs' = [execs EXCEPT ![thr[v].desc] = m]
        BY <2>7 DEF Execute
      <3> HIDE DEF m
      <3>8. execs' \in [Slots -> 0 .. MaxExecs]
        BY <3>6, <3>7 DEF TypeOK
      <3> QED BY <2>7, <3>4, <3>8 DEF Execute, TypeOK, mem, device
    <2>8. CASE WriteStatus(v)
      <3>1. thr' \in [Vcpus -> Thread]
        BY <2>8, <1>t, <2>g, <2>n, BecomeEffect DEF WriteStatus, Goto, PC
      <3>2. statusByte' \in [Slots -> Status]
        BY <2>8, <2>t DEF WriteStatus, TypeOK, Thread
      <3> QED BY <2>8, <3>1, <3>2 DEF WriteStatus, TypeOK, driver, device
    <2>9. CASE AddUsed(v)
      <3>1. thr' \in [Vcpus -> Thread]
        BY <2>9, <1>t, <2>g, <2>n, BecomeEffect DEF AddUsed, Goto, PC
      <3>2. usedRing' \in [Slots -> Slots]
        BY <2>9, <2>t DEF AddUsed, WriteUsedElem, TypeOK, Thread
      <3> QED BY <2>9, <3>1, <3>2 DEF AddUsed, TypeOK, driver
    <2>10. CASE Publish(v)
      <3>1. thr' \in [Vcpus -> Thread]
        BY <2>10, <1>t, <2>g, <2>n, BecomeEffect DEF Publish, Goto, PC
      <3>2. queue.ring["used"] # NoRing
        BY <2>10, <1>q, AddrsHaveRings DEF Publish, At, HandlersOK, IsValid, HasAddrs, RingName
      <3>3. CountUsed(queue) \in Queue
        BY <1>q, <3>2, CountUsedType
      <3>4. CountUsed(queue).ring["used"].idx \in Idx
        BY <3>3 DEF Queue, Ring, RingName
      <3>5. queue' \in Queue /\ usedIdx' \in Idx
        BY <2>10, <3>3, <3>4 DEF Publish, PublishUsedIdx, CountUnpublished, TypeOK
      <3> QED BY <2>10, <3>1, <3>5 DEF Publish, TypeOK, driver
    <2>11. CASE TriggerInterrupt(v)
      <3>1. thr' \in [Vcpus -> Thread]
        BY <2>11, <1>t, <2>n, BecomeEffect DEF TriggerInterrupt
      <3> QED BY <2>11, <3>1 DEF TriggerInterrupt, TypeOK, mem, driver
    <2>12. CASE FailRequest(v)
      <3>1. Append(thr[v].errs, thr[v].desc) \in Seq(Slots)
        BY <2>t DEF Thread
      <3>2. [NextEntry(thr[v]) EXCEPT !.errs = Append(thr[v].errs, thr[v].desc)] \in Thread
        BY <2>n, <3>1 DEF Thread
      <3>3. thr' \in [Vcpus -> Thread]
        BY <2>12, <1>t, <3>2, BecomeEffect DEF FailRequest
      <3>4. statusByte' \in [Slots -> Status]
        BY <2>12 DEF FailRequest, TypeOK, Status
      <3> QED BY <2>12, <3>3, <3>4 DEF FailRequest, TypeOK, driver, device
    <2>13. CASE NothingDone(v)
      <3>1. thr' \in [Vcpus -> Thread]
        BY <2>13, <1>t, <2>i, BecomeEffect DEF NothingDone, Return
      <3> QED BY <2>13, <3>1 DEF NothingDone, TypeOK, mem, driver, device
    <2>14. CASE FinishLoop(v)
      <3>1. thr' \in [Vcpus -> Thread]
        BY <2>14, <1>t, <2>g, BecomeEffect DEF FinishLoop, Goto, PC
      <3>2. UpdateLastAvail(queue, thr[v].cur) \in Queue
        BY <1>q, <2>t, UpdateLastAvailType DEF Thread
      <3> QED BY <2>14, <3>1, <3>2 DEF FinishLoop, TypeOK, mem, driver
    <2>15. CASE AddUsedError(v)
      <3>1. Head(thr[v].errs) \in Slots
        BY <2>15, <2>t DEF AddUsedError, Thread
      <3>2. NextError(thr[v]) \in Thread
        BY <2>15, <2>t, NextErrorType DEF AddUsedError
      <3>3. thr' \in [Vcpus -> Thread]
        BY <2>15, <1>t, <2>g, <3>2, BecomeEffect DEF AddUsedError, Goto, PC
      <3>4. usedRing' \in [Slots -> Slots]
        BY <2>15, <3>1 DEF AddUsedError, WriteUsedElem, TypeOK
      <3> QED BY <2>15, <3>3, <3>4 DEF AddUsedError, TypeOK, driver, device
    <2>16. CASE PublishError(v)
      <3>1. thr[v].errs # <<>> /\ IsValid(queue)
        BY <2>16 DEF PublishError, At, HandlersOK
      <3>2. NextError(thr[v]) \in Thread
        BY <2>t, <3>1, NextErrorType
      <3>3. thr' \in [Vcpus -> Thread]
        BY <2>16, <1>t, <3>2, BecomeEffect DEF PublishError
      <3>4. queue.ring["used"] # NoRing
        BY <3>1, <1>q, AddrsHaveRings DEF IsValid, HasAddrs, RingName
      <3>5. CountUsed(queue) \in Queue
        BY <1>q, <3>4, CountUsedType
      <3>6. CountUsed(queue).ring["used"].idx \in Idx
        BY <3>5 DEF Queue, Ring, RingName
      <3>7. queue' \in Queue /\ usedIdx' \in Idx
        BY <2>16, <3>5, <3>6 DEF PublishError, PublishUsedIdx, CountUnpublished, TypeOK
      <3> QED BY <2>16, <3>3, <3>7 DEF PublishError, TypeOK, driver
    <2>17. CASE ErrorsDone(v)
      <3>1. thr' \in [Vcpus -> Thread]
        BY <2>17, <1>t, <2>g, <2>i, BecomeEffect DEF ErrorsDone, Goto, Return, PC
      <3> QED BY <2>17, <3>1 DEF ErrorsDone, TypeOK, mem, driver
    <2>18. CASE TriggerLast(v)
      <3>1. thr' \in [Vcpus -> Thread]
        BY <2>18, <1>t, <2>i, BecomeEffect DEF TriggerLast, Return
      <3> QED BY <2>18, <3>1 DEF TriggerLast, TypeOK, mem, driver
    <2>19. CASE ResetBegin(v)
      <3>1. thr' \in [Vcpus -> Thread]
        BY <2>19, <1>t, <2>g, BecomeEffect DEF ResetBegin, Goto, PC
      <3> QED BY <2>19, <3>1 DEF ResetBegin, TypeOK, mem
    <2>20. CASE ResetRegisters(v)
      <3>1. thr' \in [Vcpus -> Thread]
        BY <2>20, <1>t, <2>g, BecomeEffect DEF ResetRegisters, Goto, PC
      <3> QED BY <2>20, <3>1 DEF ResetRegisters, TypeOK, mem, driver
    <2>21. CASE ResetQueues(v)
      <3>1. thr' \in [Vcpus -> Thread]
        BY <2>21, <1>t, <2>i, BecomeEffect DEF ResetQueues, Return
      <3>2. ResetQueue(queue) \in Queue
        BY <1>q, ResetQueueType
      <3> QED BY <2>21, <3>1, <3>2 DEF ResetQueues, TypeOK, mem
    <2> QED BY <1>9, <2>1, <2>2, <2>3, <2>4, <2>5, <2>6, <2>7, <2>8, <2>9, <2>10, <2>11,
              <2>12, <2>13, <2>14, <2>15, <2>16, <2>17, <2>18, <2>19, <2>20, <2>21
         DEF Handler
  <1>10. CASE UNCHANGED vars
    BY <1>10 DEF vars, mem, driver, device, TypeOK
  <1> QED BY <1>1, <1>2, <1>3, <1>4, <1>5, <1>6, <1>7, <1>8, <1>9, <1>10 DEF Next, Setup
----------------------------------------------------------------------------
(* The rings of the queue. *)

\* The queue's rings match its addresses after every step.
LEMMA QueueStep ==
  ASSUME IInv, [Next]_vars
  PROVE  RingsMatch(queue')
  <1> USE DEF IInv
  <1>q. queue \in Queue /\ RingsMatch(queue)
    BY DEF TypeOK
  <1>1. CASE queue' = queue
    BY <1>1, <1>q
  <1>2. ASSUME NEW r \in RingName, WriteRingAddr(r)
        PROVE  RingsMatch(queue')
    <2>1. RingBase[r] \in Addr
      BY DeviceAssumption
    <2> QED BY <1>2, <1>q, <2>1, SetRingAddrType DEF WriteRingAddr
  <1>3. CASE WriteQueueReady
    BY <1>3, <1>q, SetReadyType DEF WriteQueueReady
  <1>4. ASSUME NEW v \in Vcpus, FinishLoop(v)
        PROVE  RingsMatch(queue')
    <2>1. thr[v].cur \in Idx
      BY DEF TypeOK, Thread
    <2> QED BY <1>4, <1>q, <2>1, UpdateLastAvailType DEF FinishLoop
  <1>5. ASSUME NEW v \in Vcpus, Publish(v) \/ PublishError(v)
        PROVE  RingsMatch(queue')
    <2>1. queue.ring["used"] # NoRing
      BY <1>5, <1>q, AddrsHaveRings
         DEF Publish, PublishError, At, HandlersOK, IsValid, HasAddrs, RingName
    <2> QED BY <1>5, <1>q, <2>1, CountUsedType
            DEF Publish, PublishError, PublishUsedIdx, CountUnpublished
  <1>6. ASSUME NEW v \in Vcpus, ResetQueues(v)
        PROVE  RingsMatch(queue')
    BY <1>6, <1>q, ResetQueueType DEF ResetQueues
  <1>7. \/ queue' = queue
        \/ \E r \in RingName : WriteRingAddr(r)
        \/ WriteQueueReady
        \/ \E v \in Vcpus : FinishLoop(v) \/ Publish(v) \/ PublishError(v) \/ ResetQueues(v)
    BY DEF Next, Setup, Handler, vars, device, InitRings, WriteDriverOk, Post, AckInterrupt,
           Reap, ScanDone, Notify, CheckReady, CloneQueue, ReadAvailIdx, ReadAvailEntry,
           ParseRequest, Execute, WriteStatus, AddUsed, TriggerInterrupt, FailRequest,
           NothingDone, AddUsedError, ErrorsDone, TriggerLast, ResetBegin, ResetRegisters
  <1> QED BY <1>1, <1>2, <1>3, <1>4, <1>5, <1>6, <1>7

----------------------------------------------------------------------------
(* Locks. *)

\* Where the handler stands after a step that may end in one of several places.
LEMMA PcAfter ==
  ASSUME IInv, NEW v \in Vcpus
  PROVE  /\ CloneQueue(v) => thr'[v].pc \in {"avail", "idle"}
         /\ ReadAvailIdx(v) => thr'[v].pc \in {"loop", "idle"}
         /\ ReadAvailEntry(v) => thr'[v].pc \in {"parse", "loop"}
         /\ WriteStatus(v) => thr'[v].pc \in {"used", "loop"}
         /\ AddUsed(v) =>
              \/ thr'[v].pc = "publish" /\ queueLock' = v /\ IsValid(queue)
              \/ thr'[v].pc = "loop" /\ queueLock' = queueLock
         /\ Publish(v) => thr'[v].pc \in {"irq", "loop"}
  <1>t. thr \in [Vcpus -> Thread] /\ thr[v] \in Thread
    BY DEF IInv, TypeOK
  <1>i. IdleThread.pc = "idle"
    BY DEF IdleThread
  <1>n. NextEntry(thr[v]).pc = "loop"
    BY <1>t, NextEntryType
  <1>1. ASSUME NEW t, Become(v, t) PROVE thr'[v] = t
    BY <1>1, <1>t DEF Become
  <1>2. ASSUME NEW pc, Goto(v, pc) PROVE thr'[v].pc = pc
    <2>1. [thr[v] EXCEPT !.pc = pc].pc = pc
      BY <1>t DEF Thread
    <2> QED BY <1>1, <1>2, <2>1 DEF Goto
  <1>3. Return(v) => thr'[v].pc = "idle"
    BY <1>1, <1>i DEF Return
  <1>4. Become(v, NextEntry(thr[v])) => thr'[v].pc = "loop"
    BY <1>1, <1>n
  <1>5. CloneQueue(v) => thr'[v].pc \in {"avail", "idle"}
    <2>1. [thr[v] EXCEPT !.pc = "avail", !.snap = queue].pc = "avail"
      BY <1>t DEF Thread
    <2> QED BY <1>1, <1>3, <2>1 DEF CloneQueue
  <1>6. ReadAvailIdx(v) => thr'[v].pc \in {"loop", "idle"}
    <2>1. [thr[v] EXCEPT !.pc = "loop", !.seen = availIdx,
                         !.cur = LastAvail(thr[v].snap)].pc = "loop"
      BY <1>t DEF Thread
    <2> QED BY <1>1, <1>3, <2>1 DEF ReadAvailIdx
  <1>7. ReadAvailEntry(v) => thr'[v].pc \in {"parse", "loop"}
    <2>1. [thr[v] EXCEPT !.pc = "parse",
              !.desc = availRing[AvailSlot(thr[v].snap, thr[v].cur)]].pc = "parse"
      BY <1>t DEF Thread
    <2> QED BY <1>1, <1>4, <2>1 DEF ReadAvailEntry
  <1>8. WriteStatus(v) => thr'[v].pc \in {"used", "loop"}
    BY <1>2, <1>4 DEF WriteStatus
  <1>9. AddUsed(v) =>
          \/ thr'[v].pc = "publish" /\ queueLock' = v /\ IsValid(queue)
          \/ thr'[v].pc = "loop" /\ queueLock' = queueLock
    BY <1>2, <1>4 DEF AddUsed
  <1>10. Publish(v) => thr'[v].pc \in {"irq", "loop"}
    BY <1>2, <1>4 DEF Publish
  <1> QED BY <1>5, <1>6, <1>7, <1>8, <1>9, <1>10

\* A step of one handler leaves the others where they are.
LEMMA OthersStay ==
  ASSUME IInv, NEW v \in Vcpus, Notify(v) \/ Handler(v) \/ ResetBegin(v)
  PROVE  \A w \in Vcpus \ {v} : thr'[w] = thr[w]
  <1> DEFINE Others == \A w \in Vcpus \ {v} : thr'[w] = thr[w]
  <1>t. thr \in [Vcpus -> Thread]
    BY DEF IInv, TypeOK
  <1>1. ASSUME NEW t, Become(v, t) PROVE Others
    BY <1>1, <1>t DEF Become
  <1>2. ASSUME NEW pc, Goto(v, pc) PROVE Others
    BY <1>1, <1>2 DEF Goto
  <1>3. Return(v) => Others
    BY <1>1 DEF Return
  <1> HIDE DEF Others
  <1>4. Notify(v) \/ CheckReady(v) \/ CloneQueue(v) \/ ReadAvailIdx(v) => Others
    BY <1>1, <1>2, <1>3 DEF Notify, CheckReady, CloneQueue, ReadAvailIdx
  <1>5. ReadAvailEntry(v) \/ ParseRequest(v) \/ Execute(v) \/ WriteStatus(v) => Others
    BY <1>1, <1>2, <1>3 DEF ReadAvailEntry, ParseRequest, Execute, WriteStatus
  <1>6. AddUsed(v) \/ Publish(v) \/ TriggerInterrupt(v) \/ FailRequest(v) => Others
    BY <1>1, <1>2, <1>3 DEF AddUsed, Publish, TriggerInterrupt, FailRequest
  <1>7. NothingDone(v) \/ FinishLoop(v) \/ AddUsedError(v) \/ PublishError(v) => Others
    BY <1>1, <1>2, <1>3 DEF NothingDone, FinishLoop, AddUsedError, PublishError
  <1>8. ErrorsDone(v) \/ TriggerLast(v) => Others
    BY <1>1, <1>2, <1>3 DEF ErrorsDone, TriggerLast
  <1>9. ResetBegin(v) \/ ResetRegisters(v) \/ ResetQueues(v) => Others
    BY <1>1, <1>2, <1>3 DEF ResetBegin, ResetRegisters, ResetQueues
  <1> QED BY <1>4, <1>5, <1>6, <1>7, <1>8, <1>9 DEF Handler, Others

\* Every step takes, keeps and releases the locks with the program counters.
LEMMA LockStep ==
  ASSUME IInv, [Next]_vars
  PROVE  LockDiscipline'
  <1> USE DEF IInv
  <1>t. thr \in [Vcpus -> Thread]
    BY DEF TypeOK
  <1>n. NoOne \notin Vcpus
    BY DeviceAssumption
  <1>1. CASE UNCHANGED <<thr, queueLock, statusLock>>
    BY <1>1 DEF LockDiscipline
  <1>2. ASSUME NEW v \in Vcpus, Notify(v) \/ Handler(v) \/ ResetBegin(v)
        PROVE  LockDiscipline'
    <2>o. \A w \in Vcpus \ {v} : thr'[w] = thr[w]
      BY <1>2, OthersStay
    <2> USE DEF LockDiscipline, At, Become, Goto, Return, IdleThread, NextEntry, device, Thread
    <2>1. CASE Notify(v)
      BY <2>1, <1>t DEF Notify
    <2>2. CASE CheckReady(v)
      BY <2>2, <1>t DEF CheckReady
    <2>3. CASE CloneQueue(v)
      BY <2>3, <2>o, PcAfter DEF CloneQueue
    <2>4. CASE ReadAvailIdx(v)
      BY <2>4, <2>o, PcAfter DEF ReadAvailIdx
    <2>5. CASE ReadAvailEntry(v)
      BY <2>5, <2>o, PcAfter DEF ReadAvailEntry
    <2>6. CASE ParseRequest(v)
      BY <2>6, <1>t DEF ParseRequest
    <2>7. CASE Execute(v)
      BY <2>7, <1>t DEF Execute
    <2>8. CASE WriteStatus(v)
      BY <2>8, <2>o, PcAfter DEF WriteStatus
    <2>9. CASE AddUsed(v)
      BY <2>9, <2>o, <1>n, PcAfter DEF AddUsed, QueueUnlocked
    <2>10. CASE Publish(v)
      BY <2>10, <2>o, <1>n, PcAfter DEF Publish
    <2>11. CASE TriggerInterrupt(v)
      BY <2>11, <1>t DEF TriggerInterrupt
    <2>12. CASE FailRequest(v)
      BY <2>12, <1>t DEF FailRequest
    <2>13. CASE NothingDone(v)
      BY <2>13, <1>t DEF NothingDone, LoopOver
    <2>14. CASE FinishLoop(v)
      BY <2>14, <1>t, <1>n DEF FinishLoop, LoopOver, QueueUnlocked
    <2>15. CASE AddUsedError(v)
      BY <2>15, <1>t DEF AddUsedError, NextError
    <2>16. CASE PublishError(v)
      BY <2>16, <1>t DEF PublishError, NextError
    <2>17. CASE ErrorsDone(v)
      BY <2>17, <1>t, <1>n DEF ErrorsDone
    <2>18. CASE TriggerLast(v)
      BY <2>18, <1>t DEF TriggerLast
    <2>19. CASE ResetBegin(v)
      BY <2>19, <1>t, <1>n DEF ResetBegin, StatusUnlocked
    <2>20. CASE ResetRegisters(v)
      BY <2>20, <1>t DEF ResetRegisters
    <2>21. CASE ResetQueues(v)
      BY <2>21, <1>t, <1>n DEF ResetQueues
    <2> QED BY <1>2, <2>1, <2>2, <2>3, <2>4, <2>5, <2>6, <2>7, <2>8, <2>9, <2>10, <2>11,
              <2>12, <2>13, <2>14, <2>15, <2>16, <2>17, <2>18, <2>19, <2>20, <2>21
         DEF Handler
  <1>3. \/ UNCHANGED <<thr, queueLock, statusLock>>
        \/ \E v \in Vcpus : Notify(v) \/ Handler(v) \/ ResetBegin(v)
    BY DEF Next, Setup, vars, device, InitRings, WriteRingAddr, WriteQueueReady,
           WriteDriverOk, Post, AckInterrupt, Reap, ScanDone
  <1> QED BY <1>1, <1>2, <1>3

----------------------------------------------------------------------------
(* What a handler finds between two of its own steps. *)

\* What a handler that is not going to publish needs to know of its own record.
SnapOK(t) == RingsMatch(t.snap) /\ (t.pc \in OnCopy => HasAddrs(t.snap))

\* The steps that change the queue, and what they leave of it.
LEMMA QueueFields ==
  ASSUME NEW q \in Queue, NEW i \in Idx
  PROVE  /\ UpdateLastAvail(q, i).addr = q.addr
         /\ UpdateLastAvail(q, i).ring["used"] = q.ring["used"]
         /\ CountUsed(q).addr = q.addr
         /\ SetReady(q, TRUE).addr = q.addr /\ SetReady(q, TRUE).ring = q.ring
         /\ ResetQueue(q).addr["used"] = NullAddr
         /\ ResetQueue(q).ring["used"] = NoRing
  BY DEF UpdateLastAvail, CountUsed, SetReady, ResetQueue, NewQueue, Queue, RingName

\* While a handler is between an element and its index, nobody else touches the queue
\* or the used ring.
LEMMA PublisherUndisturbed ==
  ASSUME IInv, [Next]_vars, NEW w \in Vcpus, thr[w].pc \in {"publish", "errPublish"},
         thr'[w] = thr[w]
  PROVE  queue' = queue /\ usedRing' = usedRing
  <1> USE DEF IInv
  <1>l. queueLock = w /\ ~QueueUnlocked
    BY DeviceAssumption DEF LockDiscipline, QueueUnlocked
  <1>d. drv # "init"
    BY DEF PhasesOK, HandlersOK, IsValid, HasAddrs, RingName
  <1>a. \A v \in Vcpus : thr[v].pc \in {"publish", "errUsed", "errPublish"} => v = w
    BY <1>l DEF LockDiscipline
  <1>s. thr'[w].pc = thr[w].pc
    OBVIOUS
  <1>1. CASE Setup
    BY <1>1, <1>l, <1>d DEF Setup, InitRings, WriteQueueReady, WriteDriverOk, WriteRingAddr, mem
  <1>2. ASSUME NEW h \in Heads, NEW k \in Kinds, Post(h, k)
        PROVE  queue' = queue /\ usedRing' = usedRing
    BY <1>2 DEF Post, device
  <1>3. CASE AckInterrupt \/ Reap \/ ScanDone
    BY <1>3 DEF AckInterrupt, Reap, ScanDone, mem, device
  <1>4. ASSUME NEW v \in Vcpus, Notify(v) \/ Handler(v) \/ ResetBegin(v)
        PROVE  queue' = queue /\ usedRing' = usedRing
    <2>1. CASE AddUsed(v) \/ FinishLoop(v) \/ ResetQueues(v)
      BY <2>1, <1>l DEF AddUsed, FinishLoop, ResetQueues
    <2>2. CASE AddUsedError(v)
      BY <2>2, <1>a DEF AddUsedError, At
    <2>3. CASE Publish(v)
      <3>1. v = w
        BY <2>3, <1>a DEF Publish, At
      <3> QED BY <2>3, <3>1, <1>s, PcAfter DEF Publish, At
    <2>4. CASE PublishError(v)
      <3>1. v = w /\ thr[w].pc = "errPublish"
        BY <2>4, <1>a DEF PublishError, At
      <3>2. thr[v] \in Thread /\ thr[v].errs # <<>> /\ thr \in [Vcpus -> Thread]
        BY <3>1 DEF TypeOK, HandlersOK, At
      <3>3. thr'[v] = NextError(thr[v])
        BY <2>4, <3>2 DEF PublishError, Become
      <3> QED BY <3>1, <3>2, <3>3, <1>s, NextErrorType
    <2> QED BY <1>4, <2>1, <2>2, <2>3, <2>4
            DEF Handler, Notify, ResetBegin, CheckReady, CloneQueue, ReadAvailIdx,
                ReadAvailEntry, ParseRequest, Execute, WriteStatus, TriggerInterrupt,
                FailRequest, NothingDone, ErrorsDone, TriggerLast, ResetRegisters, mem, device
  <1>5. CASE UNCHANGED vars
    BY <1>5 DEF vars, mem, device
  <1> QED BY <1>1, <1>2, <1>3, <1>4, <1>5 DEF Next

\* After its own step a handler still satisfies what HandlersOK asks of it.
LEMMA ActorStep ==
  ASSUME IInv, NEW v \in Vcpus, Notify(v) \/ Handler(v) \/ ResetBegin(v)
  PROVE  /\ SnapOK(thr'[v])
         /\ thr'[v].pc = "errPublish" => thr'[v].errs # <<>>
         /\ thr'[v].pc \in {"publish", "errPublish"} => IsValid(queue')
  <1> USE DEF IInv
  <1> DEFINE Fine == /\ SnapOK(thr'[v])
                     /\ thr'[v].pc = "errPublish" => thr'[v].errs # <<>>
                     /\ thr'[v].pc \in {"publish", "errPublish"} => IsValid(queue')
  <1>t. thr \in [Vcpus -> Thread] /\ thr[v] \in Thread
    BY DEF TypeOK
  <1>q. queue \in Queue /\ RingsMatch(queue)
    BY DEF TypeOK
  <1>s. SnapOK(thr[v])
    BY DEF SnapOK, HandlersOK
  <1>b. ASSUME NEW t, Become(v, t) PROVE thr'[v] = t
    BY <1>b, <1>t DEF Become
  <1>e. ASSUME NEW pc, Goto(v, pc)
        PROVE  thr'[v].pc = pc /\ thr'[v].snap = thr[v].snap /\ thr'[v].errs = thr[v].errs
    <2>1. thr'[v] = [thr[v] EXCEPT !.pc = pc]
      BY <1>e, <1>b DEF Goto
    <2> QED BY <2>1, <1>t DEF Thread
  <1>r. Return(v) => Fine
    <2>1. IdleThread.pc = "idle" /\ SnapOK(IdleThread)
      BY IdleThreadType DEF IdleThread, SnapOK, OnCopy
    <2> QED BY <2>1, <1>b DEF Return
  <1>n. Become(v, NextEntry(thr[v])) /\ thr[v].pc \in OnCopy => Fine
    BY <1>t, <1>s, <1>b, NextEntryType DEF SnapOK
  <1>g. ASSUME NEW pc, Goto(v, pc), pc \notin {"publish", "errPublish"},
               pc \in OnCopy => thr[v].pc \in OnCopy
        PROVE  Fine
    BY <1>g, <1>e, <1>s DEF SnapOK
  <1>1. CASE Notify(v)
    BY <1>1, <1>g DEF Notify, OnCopy
  <1>2. CASE CheckReady(v)
    BY <1>2, <1>g, <1>r DEF CheckReady, OnCopy
  <1>3. CASE CloneQueue(v)
    <2> DEFINE t == [thr[v] EXCEPT !.pc = "avail", !.snap = queue]
    <2>1. t.pc = "avail" /\ t.snap = queue
      BY <1>t DEF Thread
    <2>2. HasAddrs(queue) /\ Become(v, t) => Fine
      BY <2>1, <1>q, <1>b DEF SnapOK
    <2> QED BY <1>3, <1>r, <2>2 DEF CloneQueue
  <1>4. CASE ReadAvailIdx(v)
    <2> DEFINE t == [thr[v] EXCEPT !.pc = "loop", !.seen = availIdx,
                                   !.cur = LastAvail(thr[v].snap)]
    <2>1. t.pc = "loop" /\ t.snap = thr[v].snap
      BY <1>t DEF Thread
    <2>2. thr[v].pc \in OnCopy
      BY <1>4 DEF ReadAvailIdx, At, OnCopy
    <2>3. Become(v, t) => Fine
      BY <2>1, <2>2, <1>s, <1>b DEF SnapOK
    <2> QED BY <1>4, <1>r, <2>3 DEF ReadAvailIdx
  <1>5. CASE ReadAvailEntry(v)
    <2> DEFINE t == [thr[v] EXCEPT !.pc = "parse",
                       !.desc = availRing[AvailSlot(thr[v].snap, thr[v].cur)]]
    <2>1. t.pc = "parse" /\ t.snap = thr[v].snap
      BY <1>t DEF Thread
    <2>2. thr[v].pc \in OnCopy
      BY <1>5 DEF ReadAvailEntry, At, OnCopy
    <2>3. Become(v, t) => Fine
      BY <2>1, <2>2, <1>s, <1>b DEF SnapOK
    <2> QED BY <1>5, <1>n, <2>2, <2>3 DEF ReadAvailEntry
  <1>6. CASE ParseRequest(v)
    <2> DEFINE k == chain[thr[v].desc]
               t == [thr[v] EXCEPT !.req = k,
                      !.pc = IF k \in {"bad", "nostatus"} THEN "fail" ELSE "exec"]
    <2>1. t.pc \in {"fail", "exec"} /\ t.snap = thr[v].snap
      BY <1>t DEF Thread
    <2>2. thr[v].pc \in OnCopy
      BY <1>6 DEF ParseRequest, At, OnCopy
    <2>3. thr'[v] = t
      BY <1>6, <1>b DEF ParseRequest
    <2> QED BY <2>1, <2>2, <2>3, <1>s DEF SnapOK
  <1>7. CASE Execute(v)
    <2>1. PICK s : Become(v, [thr[v] EXCEPT !.pc = "status", !.res = s])
      BY <1>7 DEF Execute
    <2>2. thr'[v].pc = "status" /\ thr'[v].snap = thr[v].snap
      BY <2>1, <1>b, <1>t DEF Thread
    <2>3. thr[v].pc \in OnCopy
      BY <1>7 DEF Execute, At, OnCopy
    <2> QED BY <2>2, <2>3, <1>s DEF SnapOK
  <1>8. CASE WriteStatus(v)
    <2>1. thr[v].pc \in OnCopy
      BY <1>8 DEF WriteStatus, At, OnCopy
    <2> QED BY <1>8, <2>1, <1>g, <1>n DEF WriteStatus
  <1>9. CASE AddUsed(v)
    <2>1. thr[v].pc \in OnCopy
      BY <1>9 DEF AddUsed, At, OnCopy
    <2>2. CASE IsValid(queue) /\ Goto(v, "publish")
      <3>1. thr'[v].pc = "publish" /\ thr'[v].snap = thr[v].snap
        BY <2>2, <1>e
      <3> QED BY <1>9, <2>1, <2>2, <3>1, <1>s DEF AddUsed, SnapOK
    <2> QED BY <1>9, <2>1, <2>2, <1>n DEF AddUsed
  <1>10. CASE Publish(v)
    <2>1. thr[v].pc \in OnCopy
      BY <1>10 DEF Publish, At, OnCopy
    <2> QED BY <1>10, <2>1, <1>g, <1>n DEF Publish
  <1>11. CASE TriggerInterrupt(v)
    BY <1>11, <1>n DEF TriggerInterrupt, At, OnCopy
  <1>12. CASE FailRequest(v)
    <2> DEFINE n == NextEntry(thr[v])
               t == [n EXCEPT !.errs = Append(thr[v].errs, thr[v].desc)]
    <2>1. n \in Thread /\ n.pc = "loop" /\ n.snap = thr[v].snap
      BY <1>t, NextEntryType
    <2> HIDE DEF n
    <2>2. t.pc = "loop" /\ t.snap = thr[v].snap
      BY <2>1 DEF Thread
    <2>3. thr'[v] = t
      BY <1>12, <1>b DEF FailRequest, n
    <2>4. thr[v].pc \in OnCopy
      BY <1>12 DEF FailRequest, At, OnCopy
    <2> QED BY <2>2, <2>3, <2>4, <1>s DEF SnapOK
  <1>13. CASE NothingDone(v)
    BY <1>13, <1>r DEF NothingDone
  <1>14. CASE FinishLoop(v)
    BY <1>14, <1>g DEF FinishLoop, OnCopy
  <1>15. CASE AddUsedError(v)
    <2>1. CASE IsValid(queue) /\ Goto(v, "errPublish")
      <3>1. thr'[v].pc = "errPublish" /\ thr'[v].snap = thr[v].snap
            /\ thr'[v].errs = thr[v].errs
        BY <2>1, <1>e
      <3> QED BY <1>15, <2>1, <3>1, <1>s DEF AddUsedError, SnapOK, OnCopy, device
    <2>2. CASE Become(v, NextError(thr[v]))
      BY <1>15, <2>2, <1>t, <1>s, <1>b, NextErrorType DEF AddUsedError, SnapOK, OnCopy
    <2> QED BY <1>15, <2>1, <2>2 DEF AddUsedError
  <1>16. CASE PublishError(v)
    <2>1. thr[v].errs # <<>>
      BY <1>16 DEF PublishError, HandlersOK
    <2> QED BY <1>16, <2>1, <1>t, <1>s, <1>b, NextErrorType DEF PublishError, SnapOK, OnCopy
  <1>17. CASE ErrorsDone(v)
    BY <1>17, <1>g, <1>r DEF ErrorsDone, OnCopy
  <1>18. CASE TriggerLast(v)
    BY <1>18, <1>r DEF TriggerLast
  <1>19. CASE ResetBegin(v)
    BY <1>19, <1>g DEF ResetBegin, OnCopy
  <1>20. CASE ResetRegisters(v)
    BY <1>20, <1>g DEF ResetRegisters, OnCopy
  <1>21. CASE ResetQueues(v)
    BY <1>21, <1>r DEF ResetQueues
  <1> QED BY <1>1, <1>2, <1>3, <1>4, <1>5, <1>6, <1>7, <1>8, <1>9, <1>10, <1>11, <1>12,
            <1>13, <1>14, <1>15, <1>16, <1>17, <1>18, <1>19, <1>20, <1>21 DEF Handler

LEMMA HandlersStep ==
  ASSUME IInv, [Next]_vars
  PROVE  HandlersOK'
  <1> USE DEF IInv
  <1>1. ASSUME NEW w \in Vcpus, thr'[w] = thr[w]
        PROVE  /\ RingsMatch(thr'[w].snap)
               /\ thr'[w].pc \in OnCopy => HasAddrs(thr'[w].snap)
               /\ thr'[w].pc = "errPublish" => thr'[w].errs # <<>>
               /\ thr'[w].pc \in {"publish", "errPublish"} => IsValid(queue')
    BY <1>1, PublisherUndisturbed DEF HandlersOK, At
  <1>2. ASSUME NEW v \in Vcpus, Notify(v) \/ Handler(v) \/ ResetBegin(v)
        PROVE  HandlersOK'
    BY <1>1, <1>2, OthersStay, ActorStep DEF HandlersOK, SnapOK, At
  <1>3. thr' = thr \/ \E v \in Vcpus : Notify(v) \/ Handler(v) \/ ResetBegin(v)
    BY DEF Next, Setup, vars, InitRings, WriteRingAddr, WriteQueueReady, WriteDriverOk, Post,
           AckInterrupt, Reap, ScanDone
  <1>4. CASE thr' = thr
    BY <1>1, <1>4 DEF HandlersOK, At
  <1> QED BY <1>2, <1>3, <1>4

----------------------------------------------------------------------------
(* The driver's phases. *)

\* Setting one ring address.
LEMMA SetUsedAddr ==
  ASSUME NEW q \in Queue, NEW r \in RingName, NEW a \in Addr
  PROVE  /\ r # "used" => /\ SetRingAddr(q, r, a).addr["used"] = q.addr["used"]
                          /\ SetRingAddr(q, r, a).ring["used"] = q.ring["used"]
         /\ r = "used" /\ a # NullAddr /\ q.addr["used"] = NullAddr
              => /\ SetRingAddr(q, r, a).addr["used"] = a
                 /\ SetRingAddr(q, r, a).ring["used"].idx = 0
  BY DEF SetRingAddr, NewRing, Queue, RingName

\* A handler that publishes does so after the driver has set the ring.
LEMMA PublisherPhase ==
  ASSUME IInv, NEW v \in Vcpus, thr[v].pc \in {"publish", "errPublish"}
  PROVE  drv \notin {"init", "desc", "avail", "used"} /\ queue.ring["used"] # NoRing
  <1>1. HasAddrs(queue) /\ queue \in Queue /\ RingsMatch(queue)
    BY DEF IInv, HandlersOK, IsValid, TypeOK
  <1>2. queue.addr["used"] # NullAddr /\ queue.ring["used"] # NoRing
    BY <1>1, AddrsHaveRings DEF HasAddrs, RingName
  <1> QED BY <1>2 DEF IInv, PhasesOK

\* The steps a handler takes that PhasesOK does not look at.
Inner(v) ==
  \/ Notify(v) \/ CheckReady(v) \/ CloneQueue(v) \/ ReadAvailIdx(v) \/ ReadAvailEntry(v)
  \/ ParseRequest(v) \/ Execute(v) \/ WriteStatus(v) \/ AddUsed(v) \/ TriggerInterrupt(v)
  \/ FailRequest(v) \/ NothingDone(v) \/ AddUsedError(v) \/ ErrorsDone(v) \/ TriggerLast(v)
  \/ ResetRegisters(v)

LEMMA InnerFrame ==
  ASSUME NEW v, Inner(v)
  PROVE  UNCHANGED <<drv, usedIdx, lastUsed, queue, availIdx, irqPhase>>
  BY DEF Inner, Notify, CheckReady, CloneQueue, ReadAvailIdx, ReadAvailEntry, ParseRequest,
         Execute, WriteStatus, AddUsed, TriggerInterrupt, FailRequest, NothingDone,
         AddUsedError, ErrorsDone, TriggerLast, ResetRegisters, mem, driver, device

\* The phase of the driver and the used ring change together.
LEMMA PhaseStep ==
  ASSUME IInv, [Next]_vars
  PROVE  /\ drv' \in {"init", "desc", "avail", "used"} => queue'.addr["used"] = NullAddr
         /\ drv' \in {"ready", "ok", "run"} => queue'.addr["used"] # NullAddr
         /\ drv' \in {"desc", "avail", "used"} => usedIdx' = 0 /\ lastUsed' = 0
  <1> USE DEF IInv
  <1> DEFINE Goal == /\ drv' \in {"init", "desc", "avail", "used"}
                          => queue'.addr["used"] = NullAddr
                     /\ drv' \in {"ready", "ok", "run"} => queue'.addr["used"] # NullAddr
                     /\ drv' \in {"desc", "avail", "used"} => usedIdx' = 0 /\ lastUsed' = 0
  <1>q. queue \in Queue
    BY DEF TypeOK
  <1>0. CASE UNCHANGED <<drv, usedIdx, lastUsed, queue>>
    BY <1>0 DEF PhasesOK
  <1>1. CASE InitRings
    BY <1>1 DEF InitRings, PhasesOK, device
  <1>2. ASSUME NEW r \in RingName, WriteRingAddr(r)
        PROVE  Goal
    <2>1. RingBase[r] \in Addr /\ RingBase[r] # NullAddr
      BY DeviceAssumption
    <2> QED BY <1>2, <1>q, <2>1, SetUsedAddr DEF WriteRingAddr, PhasesOK, RingName, mem
  <1>3. CASE WriteQueueReady
    <2>1. queue'.addr = queue.addr
      BY <1>3, <1>q DEF WriteQueueReady, SetReady, Queue
    <2> QED BY <1>3, <2>1 DEF WriteQueueReady, PhasesOK
  <1>4. CASE WriteDriverOk
    BY <1>4 DEF WriteDriverOk, PhasesOK
  <1>5. CASE Reap
    BY <1>5 DEF Reap, PhasesOK, device, mem
  <1>6. ASSUME NEW v \in Vcpus, Publish(v) \/ PublishError(v)
        PROVE  Goal
    <2>1. thr[v].pc \in {"publish", "errPublish"}
      BY <1>6 DEF Publish, PublishError, At
    <2>2. drv \notin {"init", "desc", "avail", "used"}
      BY <2>1, PublisherPhase
    <2>3. 0 \in Idx
      BY ZeroType
    <2>4. queue'.addr = queue.addr
      BY <1>6, <1>q, <2>3, QueueFields
         DEF Publish, PublishError, PublishUsedIdx, CountUnpublished
    <2>5. drv' = drv
      BY <1>6 DEF Publish, PublishError, driver
    <2> QED BY <2>2, <2>4, <2>5 DEF PhasesOK
  <1>7. ASSUME NEW v \in Vcpus, FinishLoop(v)
        PROVE  Goal
    <2>1. thr[v].cur \in Idx
      BY DEF TypeOK, Thread
    <2>2. queue'.addr = queue.addr
      BY <1>7, <1>q, <2>1, QueueFields DEF FinishLoop
    <2> QED BY <1>7, <2>2 DEF FinishLoop, PhasesOK, mem, driver
  <1>8. ASSUME NEW v \in Vcpus, ResetBegin(v)
        PROVE  Goal
    BY <1>8 DEF ResetBegin
  <1>9. ASSUME NEW v \in Vcpus, ResetQueues(v)
        PROVE  Goal
    BY <1>9, <1>q, ZeroType, QueueFields DEF ResetQueues
  <1>10. \/ UNCHANGED <<drv, usedIdx, lastUsed, queue>>
         \/ InitRings \/ WriteQueueReady \/ WriteDriverOk \/ Reap
         \/ \E r \in RingName : WriteRingAddr(r)
         \/ \E v \in Vcpus : \/ Publish(v) \/ PublishError(v) \/ FinishLoop(v)
                             \/ ResetBegin(v) \/ ResetQueues(v)
    <2>1. ASSUME NEW v \in Vcpus, Inner(v) PROVE UNCHANGED <<drv, usedIdx, lastUsed, queue>>
      BY <2>1, InnerFrame
    <2>2. CASE AckInterrupt \/ ScanDone \/ UNCHANGED vars
      BY <2>2 DEF AckInterrupt, ScanDone, vars, mem, driver, device
    <2>3. ASSUME NEW h, NEW k, Post(h, k) PROVE UNCHANGED <<drv, usedIdx, lastUsed, queue>>
      BY <2>3 DEF Post, device
    <2> QED BY <2>1, <2>2, <2>3 DEF Next, Setup, Handler, Inner
  <1> QED BY <1>0, <1>1, <1>2, <1>3, <1>4, <1>5, <1>6, <1>7, <1>8, <1>9, <1>10

\* The driver waits for a reset it has begun.
LEMMA ResetPhaseStep ==
  ASSUME IInv, [Next]_vars
  PROVE  \A w \in Vcpus : thr'[w].pc \in {"rstIrq", "rstQueue"} => drv' = "reset"
  <1> USE DEF IInv
  <1> SUFFICES ASSUME NEW w \in Vcpus, thr'[w].pc \in {"rstIrq", "rstQueue"}
               PROVE  drv' = "reset"
    OBVIOUS
  <1>l. statusLock' = w
    BY LockStep DEF LockDiscipline
  <1>1. CASE statusLock' = statusLock
    <2>1. drv = "reset"
      BY <1>1, <1>l DEF LockDiscipline, PhasesOK
    <2>2. ~ \E v \in Vcpus : ResetQueues(v)
      BY <1>1, <1>l, DeviceAssumption DEF ResetQueues
    <2>3. ~ Setup \/ drv' = "reset"
      BY <2>1 DEF Setup, InitRings, WriteRingAddr, WriteQueueReady, WriteDriverOk, RingName
    <2> QED BY <2>1, <2>2, <2>3
            DEF Next, Handler, vars, mem, driver, Post, AckInterrupt, Reap, ScanDone, Notify,
                CheckReady, CloneQueue, ReadAvailIdx, ReadAvailEntry, ParseRequest, Execute,
                WriteStatus, AddUsed, Publish, TriggerInterrupt, FailRequest, NothingDone,
                FinishLoop, AddUsedError, PublishError, ErrorsDone, TriggerLast, ResetBegin,
                ResetRegisters
  <1>2. CASE statusLock' # statusLock
    <2>1. \E v \in Vcpus : ResetBegin(v) \/ ResetQueues(v)
      <3>1. ASSUME NEW v \in Vcpus, Inner(v) PROVE statusLock' = statusLock
        BY <3>1 DEF Inner, Notify, CheckReady, CloneQueue, ReadAvailIdx, ReadAvailEntry,
             ParseRequest, Execute, WriteStatus, AddUsed, TriggerInterrupt, FailRequest,
             NothingDone, AddUsedError, ErrorsDone, TriggerLast, ResetRegisters, device
      <3>2. ASSUME NEW v \in Vcpus, Publish(v) \/ PublishError(v) \/ FinishLoop(v)
            PROVE  statusLock' = statusLock
        BY <3>2 DEF Publish, PublishError, FinishLoop
      <3>3. CASE Setup \/ AckInterrupt \/ Reap \/ ScanDone \/ UNCHANGED vars
        BY <1>2, <3>3 DEF Setup, InitRings, WriteRingAddr, WriteQueueReady, WriteDriverOk,
             AckInterrupt, Reap, ScanDone, vars, device
      <3>4. ASSUME NEW h \in Heads, NEW k \in Kinds, Post(h, k) PROVE statusLock' = statusLock
        BY <3>4 DEF Post, device
      <3>5. ASSUME NEW v \in Vcpus, Notify(v) \/ Handler(v) \/ ResetBegin(v)
            PROVE  ResetBegin(v) \/ ResetQueues(v)
        BY <1>2, <3>1, <3>2, <3>5 DEF Handler, Inner
      <3> QED BY <1>2, <3>3, <3>4, <3>5 DEF Next
    <2>2. ~ \E v \in Vcpus : ResetQueues(v)
      BY <1>l, DeviceAssumption DEF ResetQueues
    <2> QED BY <2>1, <2>2 DEF ResetBegin
  <1> QED BY <1>1, <1>2

----------------------------------------------------------------------------
(* Who has taken the step. *)

\* A handler moves only by a step of its own.
LEMMA OneActs ==
  ASSUME IInv, [Next]_vars, NEW w \in Vcpus
  PROVE  thr'[w] = thr[w] \/ Notify(w) \/ Handler(w) \/ ResetBegin(w)
  <1>1. thr' = thr \/ \E v \in Vcpus : Notify(v) \/ Handler(v) \/ ResetBegin(v)
    BY DEF Next, Setup, vars, InitRings, WriteRingAddr, WriteQueueReady, WriteDriverOk, Post,
           AckInterrupt, Reap, ScanDone
  <1> QED BY <1>1, OthersStay

\* Only the first half of add_used leaves a handler about to publish.
LEMMA PublisherMade ==
  ASSUME IInv, [Next]_vars, NEW w \in Vcpus, Notify(w) \/ Handler(w) \/ ResetBegin(w),
         thr'[w].pc \in {"publish", "errPublish"}
  PROVE  AddUsed(w) \/ AddUsedError(w) \/ PublishError(w)
  <1> USE DEF IInv
  <1>t. thr \in [Vcpus -> Thread] /\ thr[w] \in Thread
    BY DEF TypeOK
  <1>l. queueLock' = w
    BY LockStep DEF LockDiscipline
  <1>1. ~FinishLoop(w)
    <2>1. FinishLoop(w) => thr'[w].pc = "errUsed"
      BY <1>t DEF FinishLoop, Goto, Become, Thread
    <2> QED BY <2>1
  <1>2. ~Publish(w)
    BY PcAfter
  <1>3. ~ErrorsDone(w)
    BY <1>l, DeviceAssumption DEF ErrorsDone
  <1>4. CASE Inner(w) \/ ResetBegin(w) \/ ResetQueues(w)
    <2>1. CASE AddUsed(w) \/ AddUsedError(w)
      BY <2>1
    <2>2. CASE ~(AddUsed(w) \/ AddUsedError(w))
      <3>1. queueLock' = queueLock
        BY <1>3, <1>4, <2>2
           DEF Inner, Notify, CheckReady, CloneQueue, ReadAvailIdx, ReadAvailEntry,
               ParseRequest, Execute, WriteStatus, TriggerInterrupt, FailRequest,
               NothingDone, TriggerLast, ResetBegin, ResetRegisters, ResetQueues, device
      <3>2. thr[w].pc \in {"publish", "errUsed", "errPublish"}
        BY <1>l, <3>1 DEF LockDiscipline
      <3> QED BY <1>3, <1>4, <2>2, <3>2
              DEF Inner, Notify, CheckReady, CloneQueue, ReadAvailIdx, ReadAvailEntry,
                  ParseRequest, Execute, WriteStatus, TriggerInterrupt, FailRequest,
                  NothingDone, LoopOver, TriggerLast, ResetBegin, ResetRegisters,
                  ResetQueues, At
    <2> QED BY <2>1, <2>2
  <1> QED BY <1>1, <1>2, <1>4 DEF Handler, Inner

----------------------------------------------------------------------------
(* The cursor of a handler. *)

InLoop == OnCopy \ {"avail"}

\* How far index j is ahead of index i, u16 arithmetic.
Ahead(i, j) == IF j >= i THEN j - i ELSE j + IdxMod - i

\* The cursor lies between the copy's last available index and the index that was read,
\* and before the latter while an entry is in hand.
CursorOK(t) ==
  t.pc \in InLoop =>
    /\ Ahead(LastAvail(t.snap), t.cur) <= Ahead(LastAvail(t.snap), t.seen)
    /\ t.pc # "loop" => t.cur # t.seen

\* A cursor that has not reached its end does not come back to its start by advancing.
LEMMA AheadWraps ==
  ASSUME NEW i \in Idx, NEW j \in Idx, NEW k \in Idx,
         Ahead(i, j) <= Ahead(i, k), j # k
  PROVE  WrapInc(j) # i /\ Ahead(i, WrapInc(j)) <= Ahead(i, k)
  <1>1. i \in Int /\ j \in Int /\ k \in Int /\ IdxMod \in Int /\ IdxMod > 0
    BY SizeAssumption DEF Idx
  <1>2. i >= 0 /\ i < IdxMod /\ j >= 0 /\ j < IdxMod /\ k >= 0 /\ k < IdxMod
    BY <1>1 DEF Idx
  <1>3. CASE j + 1 = IdxMod
    <2>1. WrapInc(j) = 0
      BY <1>1, <1>3 DEF WrapInc
    <2> QED BY <1>1, <1>2, <1>3, <2>1 DEF Ahead
  <1>4. CASE j + 1 < IdxMod
    <2>1. WrapInc(j) = j + 1
      BY <1>1, <1>2, <1>4 DEF WrapInc
    <2> QED BY <1>1, <1>2, <1>4, <2>1 DEF Ahead
  <1> QED BY <1>1, <1>2, <1>3, <1>4

Looping(v) ==
  \/ ReadAvailEntry(v) \/ ParseRequest(v) \/ Execute(v) \/ WriteStatus(v) \/ AddUsed(v)
  \/ Publish(v) \/ TriggerInterrupt(v) \/ FailRequest(v)

\* A step of the loop keeps the entry in hand or goes on to the next one.
LEMMA LoopMoves ==
  ASSUME IInv, NEW v \in Vcpus, CursorOK(thr[v]), Looping(v)
  PROVE  /\ thr[v].pc \in InLoop /\ thr[v].cur # thr[v].seen
         /\ thr'[v].snap = thr[v].snap /\ thr'[v].seen = thr[v].seen
         /\ \/ thr'[v].pc \in InLoop \ {"loop"} /\ thr'[v].cur = thr[v].cur
            \/ thr'[v].pc = "loop" /\ thr'[v].cur = WrapInc(thr[v].cur)
  <1>t. thr \in [Vcpus -> Thread] /\ thr[v] \in Thread
    BY DEF IInv, TypeOK
  <1>1. thr[v].pc \in InLoop /\ thr[v].cur # thr[v].seen
    BY DEF Looping, ReadAvailEntry, ParseRequest, Execute, WriteStatus, AddUsed, Publish,
           TriggerInterrupt, FailRequest, At, InLoop, OnCopy, CursorOK
  <1> DEFINE Moves(t) == /\ t.snap = thr[v].snap /\ t.seen = thr[v].seen
                         /\ \/ t.pc \in InLoop \ {"loop"} /\ t.cur = thr[v].cur
                            \/ t.pc = "loop" /\ t.cur = WrapInc(thr[v].cur)
  <1>s. SUFFICES Moves(thr'[v])
    BY <1>1
  <1>2. Moves(NextEntry(thr[v]))
    BY <1>t DEF NextEntry, Thread
  <1>3. ASSUME NEW t, Become(v, t), Moves(t) PROVE Moves(thr'[v])
    BY <1>t, <1>3 DEF Become
  <1>4. Become(v, NextEntry(thr[v])) => Moves(thr'[v])
    BY <1>2, <1>3
  <1>5. ASSUME NEW pc \in InLoop \ {"loop"}, Goto(v, pc) PROVE Moves(thr'[v])
    <2>1. Moves([thr[v] EXCEPT !.pc = pc])
      BY <1>5, <1>t DEF Thread
    <2> QED BY <1>3, <1>5, <2>1 DEF Goto
  <1> HIDE DEF Moves
  <1>6. CASE ReadAvailEntry(v)
    <2>1. Moves([thr[v] EXCEPT !.pc = "parse",
                    !.desc = availRing[AvailSlot(thr[v].snap, thr[v].cur)]])
      BY <1>t DEF Moves, Thread, InLoop, OnCopy
    <2> QED BY <1>3, <1>4, <1>6, <2>1 DEF ReadAvailEntry
  <1>7. CASE ParseRequest(v)
    <2> DEFINE k == chain[thr[v].desc]
               pc == IF k \in {"bad", "nostatus"} THEN "fail" ELSE "exec"
    <2>1. Moves([thr[v] EXCEPT !.req = k, !.pc = pc])
      BY <1>t DEF Moves, Thread, InLoop, OnCopy
    <2> QED BY <1>3, <1>7, <2>1 DEF ParseRequest
  <1>8. CASE Execute(v)
    <2>1. PICK s \in Outcome(thr[v].req) :
            Become(v, [thr[v] EXCEPT !.pc = "status", !.res = s])
      BY <1>8 DEF Execute
    <2>2. Moves([thr[v] EXCEPT !.pc = "status", !.res = s])
      BY <1>t DEF Moves, Thread, InLoop, OnCopy
    <2> QED BY <1>3, <2>1, <2>2
  <1>9. CASE FailRequest(v)
    <2> DEFINE t == [NextEntry(thr[v]) EXCEPT !.errs = Append(thr[v].errs, thr[v].desc)]
    <2>1. Moves(t)
      BY <1>t DEF Moves, NextEntry, Thread
    <2> QED BY <1>3, <1>9, <2>1 DEF FailRequest
  <1>10. CASE WriteStatus(v) \/ AddUsed(v) \/ Publish(v) \/ TriggerInterrupt(v)
    BY <1>4, <1>5, <1>10
       DEF WriteStatus, AddUsed, Publish, TriggerInterrupt, InLoop, OnCopy
  <1> QED BY <1>6, <1>7, <1>8, <1>9, <1>10 DEF Looping

\* A step of the loop keeps the cursor inside its window; a handler that has taken an
\* entry, or takes one in this step, will end with a look at the flags.
LEMMA LoopStep ==
  ASSUME IInv, NEW v \in Vcpus, CursorOK(thr[v]), Looping(v)
  PROVE  /\ CursorOK(thr'[v])
         /\ EndsWithFlags(v) \/ thr'[v].pc = "loop" => EndsWithFlags(v)'
  <1>t. thr[v] \in Thread
    BY DEF IInv, TypeOK
  <1>i. thr[v].cur \in Idx /\ thr[v].seen \in Idx /\ LastAvail(thr[v].snap) \in Idx
    BY <1>t, LastAvailType DEF Thread
  <1>m. /\ thr[v].pc \in InLoop /\ thr[v].cur # thr[v].seen
        /\ thr'[v].snap = thr[v].snap /\ thr'[v].seen = thr[v].seen
    BY LoopMoves
  <1>w. /\ WrapInc(thr[v].cur) # LastAvail(thr[v].snap)
        /\ Ahead(LastAvail(thr[v].snap), WrapInc(thr[v].cur))
             <= Ahead(LastAvail(thr[v].snap), thr[v].seen)
    BY <1>i, <1>m, AheadWraps DEF CursorOK
  <1>1. CASE thr'[v].pc \in InLoop \ {"loop"} /\ thr'[v].cur = thr[v].cur
    BY <1>1, <1>m DEF CursorOK, EndsWithFlags, InLoop, OnCopy
  <1>2. CASE thr'[v].pc = "loop" /\ thr'[v].cur = WrapInc(thr[v].cur)
    BY <1>2, <1>m, <1>w DEF CursorOK, EndsWithFlags
  <1> QED BY <1>1, <1>2, LoopMoves

Cursors == \A v \in Vcpus : CursorOK(thr[v])

LEMMA CursorStep ==
  ASSUME IInv, Cursors, [Next]_vars
  PROVE  Cursors'
  <1> SUFFICES ASSUME NEW w \in Vcpus PROVE CursorOK(thr'[w])
    BY DEF Cursors
  <1> USE DEF Cursors
  <1>t. thr \in [Vcpus -> Thread] /\ thr[w] \in Thread
    BY DEF IInv, TypeOK
  <1>1. CASE thr'[w] = thr[w]
    BY <1>1
  <1>2. CASE Looping(w)
    BY <1>2, LoopStep
  <1>3. CASE ReadAvailIdx(w)
    <2>1. CASE Return(w)
      <3>1. thr'[w].pc = "idle"
        BY <1>t, <2>1 DEF Return, Become, IdleThread
      <3> QED BY <3>1 DEF CursorOK, InLoop, OnCopy
    <2>2. CASE Become(w, [thr[w] EXCEPT !.pc = "loop", !.seen = availIdx,
                                        !.cur = LastAvail(thr[w].snap)])
      <3>1. /\ thr'[w].pc = "loop" /\ thr'[w].snap = thr[w].snap
            /\ thr'[w].cur = LastAvail(thr[w].snap) /\ thr'[w].seen = availIdx
        BY <1>t, <2>2 DEF Become, Thread
      <3>2. LastAvail(thr[w].snap) \in Idx /\ availIdx \in Idx
        BY <1>t, LastAvailType DEF Thread, IInv, TypeOK
      <3> QED BY <3>1, <3>2, SizeAssumption DEF CursorOK, Ahead, Idx
    <2> QED BY <1>3, <2>1, <2>2 DEF ReadAvailIdx
  <1>4. CASE Notify(w) \/ ResetBegin(w) \/ (Handler(w) /\ ~Looping(w) /\ ~ReadAvailIdx(w))
    <2>1. thr'[w].pc \notin InLoop
      <3>1. ASSUME NEW pc \in PC \ InLoop, Goto(w, pc) PROVE thr'[w].pc \notin InLoop
        BY <1>t, <3>1 DEF Goto, Become, Thread
      <3>2. Return(w) => thr'[w].pc \notin InLoop
        BY <1>t DEF Return, Become, IdleThread, InLoop, OnCopy
      <3>3. CloneQueue(w) => thr'[w].pc \notin InLoop
        BY PcAfter DEF InLoop, OnCopy
      <3>4. AddUsedError(w) \/ PublishError(w) => thr'[w].pc \notin InLoop
        <4>1. AddUsedError(w) \/ PublishError(w) => thr[w].errs # <<>>
          BY DEF AddUsedError, PublishError, IInv, HandlersOK
        <4>2. Become(w, NextError(thr[w])) /\ thr[w].errs # <<>> => thr'[w].pc = "errUsed"
          BY <1>t, NextErrorType DEF Become
        <4> QED BY <3>1, <4>1, <4>2 DEF AddUsedError, PublishError, PC, InLoop, OnCopy
      <3> QED BY <1>4, <3>1, <3>2, <3>3, <3>4
              DEF Handler, Looping, Notify, ResetBegin, CheckReady, NothingDone, FinishLoop,
                  ErrorsDone, TriggerLast, ResetRegisters, ResetQueues, PC, InLoop, OnCopy
    <2> QED BY <2>1 DEF CursorOK
  <1> QED BY <1>1, <1>2, <1>3, <1>4, OneActs

----------------------------------------------------------------------------
(* The theorems. *)

LEMMA InitIInv ==
  ASSUME Init
  PROVE  IInv
  <1>q. NewQueue \in Queue /\ RingsMatch(NewQueue)
    BY NewQueueType
  <1>t. thr \in [Vcpus -> Thread] /\ \A v \in Vcpus : thr[v] = IdleThread
    BY IdleThreadType DEF Init
  <1>i. IdleThread.pc = "idle"
    BY DEF IdleThread
  <1>1. TypeOK
    <2>1. /\ chain \in [Slots -> Kind] /\ statusByte \in [Slots -> Status]
          /\ execs \in [Slots -> 0 .. MaxExecs]
      BY DEF Init, Kind, Status, MaxExecs
    <2>2. /\ availIdx \in Idx /\ usedIdx \in Idx /\ lastUsed \in Idx
          /\ availRing \in [Slots -> Slots] /\ usedRing \in [Slots -> Slots]
      BY ZeroType DEF Init
    <2>3. queue \in Queue
      BY <1>q DEF Init
    <2> QED BY <1>t, <2>1, <2>2, <2>3 DEF Init, TypeOK
  <1>2. LockDiscipline
    BY <1>t, <1>i, DeviceAssumption DEF Init, LockDiscipline
  <1>3. HandlersOK
    BY <1>t, <1>i, IdleThreadType DEF HandlersOK, At, OnCopy
  <1>4. PhasesOK
    BY <1>t, <1>i DEF Init, PhasesOK, NewQueue, RingName
  <1> QED BY <1>q, <1>1, <1>2, <1>3, <1>4 DEF Init, IInv

\* The inductive invariant: the types of every variable, the rings of the queue and of
\* the handlers' copies, the discipline of the two locks and the driver's phases hold
\* through every interleaving of the vCPUs.
THEOREM Inductive == Spec => []IInv
  <1>1. IInv /\ [Next]_vars => IInv'
    <2> SUFFICES ASSUME IInv, [Next]_vars PROVE IInv'
      OBVIOUS
    <2>1. PhasesOK'
      BY PhaseStep, ResetPhaseStep DEF PhasesOK
    <2> QED BY <2>1, TypeStep, QueueStep, LockStep, HandlersStep DEF IInv, RingsMatch
  <1> QED BY <1>1, InitIInv, PTL DEF Spec

\* Type correctness of the request path: the device's copies, indices and ring slots
\* stay in range whatever the guest posts and whichever access fails.
THEOREM TypeCorrect == Spec => []TypeOK
  <1>1. IInv => TypeOK
    BY DEF IInv
  <1> QED BY <1>1, Inductive, PTL

\* used_idx and the index in guest memory agree whenever the device has a used ring,
\* for any number of vCPUs completing requests and resetting the device.
THEOREM UsedIndex == Spec => []UsedIndexCoherent
  <1>i. Init => UsedIndexCoherent
    BY DEF Init, UsedIndexCoherent, NewQueue, RingName, NoRing, NewRing
  <1>1. IInv /\ UsedIndexCoherent /\ [Next]_vars => UsedIndexCoherent'
    <2> SUFFICES ASSUME IInv, UsedIndexCoherent, [Next]_vars,
                        "usedIdx" \notin Faults, queue'.ring["used"] # NoRing
                 PROVE  usedIdx' = queue'.ring["used"].idx
      BY DEF UsedIndexCoherent
    <2> USE DEF IInv
    <2>q. queue \in Queue /\ RingsMatch(queue)
      BY DEF TypeOK
    <2>0. CASE UNCHANGED <<usedIdx, queue>>
      BY <2>0 DEF UsedIndexCoherent
    <2>1. CASE InitRings
      <3>1. queue.ring["used"] = NoRing
        BY <2>1, <2>q DEF InitRings, PhasesOK, RingsMatch, RingName
      <3> QED BY <2>1, <3>1 DEF InitRings, device
    <2>2. ASSUME NEW r \in RingName, WriteRingAddr(r)
          PROVE  usedIdx' = queue'.ring["used"].idx
      <3>1. RingBase[r] \in Addr /\ RingBase[r] # NullAddr
        BY DeviceAssumption
      <3> QED BY <2>2, <2>q, <3>1, SetUsedAddr
              DEF WriteRingAddr, PhasesOK, UsedIndexCoherent, mem
    <2>3. CASE WriteQueueReady
      <3>1. queue'.ring = queue.ring
        BY <2>3, <2>q DEF WriteQueueReady, SetReady, Queue
      <3> QED BY <2>3, <3>1 DEF WriteQueueReady, UsedIndexCoherent, mem
    <2>4. ASSUME NEW v \in Vcpus, Publish(v) \/ PublishError(v)
          PROVE  usedIdx' = queue'.ring["used"].idx
      BY <2>4 DEF Publish, PublishError, PublishUsedIdx, CountUnpublished
    <2>5. ASSUME NEW v \in Vcpus, FinishLoop(v)
          PROVE  usedIdx' = queue'.ring["used"].idx
      <3>1. thr[v].cur \in Idx
        BY DEF TypeOK, Thread
      <3>2. queue'.ring["used"] = queue.ring["used"]
        BY <2>5, <2>q, <3>1, QueueFields DEF FinishLoop
      <3> QED BY <2>5, <3>2 DEF FinishLoop, UsedIndexCoherent, mem
    <2>6. ASSUME NEW v \in Vcpus, ResetQueues(v)
          PROVE  usedIdx' = queue'.ring["used"].idx
      BY <2>6, <2>q, ZeroType, QueueFields DEF ResetQueues
    <2>7. \/ UNCHANGED <<usedIdx, queue>>
          \/ InitRings \/ WriteQueueReady
          \/ \E r \in RingName : WriteRingAddr(r)
          \/ \E v \in Vcpus : Publish(v) \/ PublishError(v) \/ FinishLoop(v) \/ ResetQueues(v)
      <3>1. ASSUME NEW v \in Vcpus, Inner(v) PROVE UNCHANGED <<usedIdx, queue>>
        BY <3>1, InnerFrame
      <3>2. ASSUME NEW v \in Vcpus, ResetBegin(v) PROVE UNCHANGED <<usedIdx, queue>>
        BY <3>2 DEF ResetBegin, mem
      <3>3. CASE WriteDriverOk \/ AckInterrupt \/ Reap \/ ScanDone \/ UNCHANGED vars
        BY <3>3 DEF WriteDriverOk, AckInterrupt, Reap, ScanDone, vars, mem, device
      <3>4. ASSUME NEW h, NEW k, Post(h, k) PROVE UNCHANGED <<usedIdx, queue>>
        BY <3>4 DEF Post, device
      <3> QED BY <3>1, <3>2, <3>3, <3>4 DEF Next, Setup, Handler, Inner
    <2> QED BY <2>0, <2>1, <2>2, <2>3, <2>4, <2>5, <2>6, <2>7
  <1> QED BY <1>i, <1>1, Inductive, PTL DEF Spec

\* The two vCPUs' completions do not cross: the slot that an index is about to expose
\* holds the head of the handler that publishes it.
THEOREM OwnElement == Spec => []PublishesOwnElement
  <1>i. Init => PublishesOwnElement
    BY DEF Init, PublishesOwnElement, At, IdleThread
  <1>1. IInv /\ PublishesOwnElement /\ [Next]_vars => PublishesOwnElement'
    <2> SUFFICES ASSUME IInv, PublishesOwnElement, [Next]_vars, NEW w \in Vcpus
                 PROVE  /\ thr'[w].pc = "publish"
                             => usedRing'[UsedSlot(queue')] = thr'[w].desc
                        /\ thr'[w].pc = "errPublish"
                             => usedRing'[UsedSlot(queue')] = Head(thr'[w].errs)
      BY DEF PublishesOwnElement, At
    <2> USE DEF IInv
    <2>q. queue \in Queue /\ RingsMatch(queue) /\ usedRing \in [Slots -> Slots]
      BY DEF TypeOK
    <2>1. CASE thr'[w] = thr[w]
      BY <2>1, PublisherUndisturbed DEF PublishesOwnElement, At
    <2>2. CASE Notify(w) \/ Handler(w) \/ ResetBegin(w)
      <3>t. thr \in [Vcpus -> Thread] /\ thr[w] \in Thread
        BY DEF TypeOK
      <3>s. IsValid(queue) => UsedSlot(queue) \in Slots
        BY <2>q, ZeroType, SlotRange DEF Slots, IsValid
      <3>1. CASE AddUsed(w)
        <4>1. CASE Become(w, NextEntry(thr[w]))
          <5>1. thr'[w] = NextEntry(thr[w])
            BY <4>1, <3>t DEF Become
          <5> QED BY <5>1, <3>t, NextEntryType
        <4>2. CASE IsValid(queue) /\ WriteUsedElem(thr[w].desc) /\ Goto(w, "publish")
          <5>1. thr'[w].pc = "publish" /\ thr'[w].desc = thr[w].desc
            BY <4>2, <3>t DEF Goto, Become, Thread
          <5>2. usedRing'[UsedSlot(queue)] = thr[w].desc
            BY <4>2, <3>s, <2>q DEF WriteUsedElem
          <5> QED BY <3>1, <5>1, <5>2 DEF AddUsed
        <4> QED BY <3>1, <4>1, <4>2 DEF AddUsed
      <3>2. CASE AddUsedError(w)
        <4>1. CASE Become(w, NextError(thr[w]))
          <5>1. thr'[w] = NextError(thr[w])
            BY <4>1, <3>t DEF Become
          <5> QED BY <3>2, <5>1, <3>t, NextErrorType DEF AddUsedError
        <4>2. CASE IsValid(queue) /\ WriteUsedElem(Head(thr[w].errs)) /\ Goto(w, "errPublish")
          <5>1. thr'[w].pc = "errPublish" /\ thr'[w].errs = thr[w].errs
            BY <4>2, <3>t DEF Goto, Become, Thread
          <5>2. usedRing'[UsedSlot(queue)] = Head(thr[w].errs)
            BY <4>2, <3>s, <2>q DEF WriteUsedElem
          <5> QED BY <3>2, <5>1, <5>2 DEF AddUsedError, device
        <4> QED BY <3>2, <4>1, <4>2 DEF AddUsedError
      <3>3. CASE PublishError(w)
        <4>1. thr[w].errs # <<>>
          BY <3>3 DEF PublishError, HandlersOK
        <4>2. thr'[w] = NextError(thr[w])
          BY <3>3, <3>t DEF PublishError, Become
        <4> QED BY <3>t, <4>1, <4>2, NextErrorType
      <3>4. CASE ~ (AddUsed(w) \/ AddUsedError(w) \/ PublishError(w))
        <4>1. thr'[w].pc \notin {"publish", "errPublish"}
          BY <2>2, <3>4, PublisherMade
        <4> QED BY <4>1
      <3> QED BY <3>1, <3>2, <3>3, <3>4
    <2> QED BY <2>1, <2>2, OneActs
  <1> QED BY <1>i, <1>1, Inductive, PTL DEF Spec

\* An interrupt is not lost: what the driver has not reaped is followed by an interrupt
\* that is pending or on its way, whatever the other vCPUs do in the meantime.
THEOREM Interrupts == Spec => []InterruptNotLost
  <1>i. Init => InterruptNotLost
    BY DEF Init, InterruptNotLost
  <1>c. Init => Cursors
    BY DEF Init, Cursors, CursorOK, IdleThread, InLoop, OnCopy
  <1>s. IInv /\ Cursors /\ [Next]_vars => Cursors'
    BY CursorStep
  <1>1. IInv /\ Cursors /\ InterruptNotLost /\ [Next]_vars => InterruptNotLost'
    <2> DEFINE Coming(v) == \/ thr[v].pc \in {"irq", "endIrq", "errUsed", "errPublish"}
                            \/ "usedFlags" \in Faults /\ EndsWithFlags(v)
               OnItsWay == \E v \in Vcpus : Coming(v)
    <2> SUFFICES ASSUME IInv, Cursors, InterruptNotLost, [Next]_vars, "endFlags" \notin Faults,
                        drv' \notin {"init", "reset"}, usedIdx' # lastUsed'
                 PROVE  irqStatus' \/ irqPhase' = "scan" \/ OnItsWay'
      BY DEF InterruptNotLost
    <2> USE DEF IInv
    <2>b. drv \notin {"init", "reset"} /\ usedIdx # lastUsed
            => irqStatus \/ irqPhase = "scan" \/ OnItsWay
      BY DEF InterruptNotLost
    <2>0. CASE UNCHANGED <<drv, usedIdx, lastUsed, irqStatus, irqPhase, thr>>
      BY <2>0, <2>b DEF EndsWithFlags
    <2>1. CASE Setup
      <3>1. CASE InitRings
        BY <3>1 DEF InitRings
      <3>2. ASSUME NEW r \in RingName, WriteRingAddr(r)
            PROVE  irqStatus' \/ irqPhase' = "scan" \/ OnItsWay'
        BY <3>2, <2>b DEF WriteRingAddr, RingName, mem, EndsWithFlags
      <3>3. CASE WriteQueueReady
        BY <3>3, <2>b DEF WriteQueueReady, mem, EndsWithFlags
      <3>4. CASE WriteDriverOk
        BY <3>4, <2>b DEF WriteDriverOk, mem, EndsWithFlags
      <3> QED BY <2>1, <3>1, <3>2, <3>3, <3>4 DEF Setup
    <2>2. ASSUME NEW h \in Heads, NEW k \in Kinds, Post(h, k)
          PROVE  irqStatus' \/ irqPhase' = "scan" \/ OnItsWay'
      BY <2>2, <2>b DEF Post, device, EndsWithFlags
    <2>3. CASE AckInterrupt \/ Reap \/ ScanDone
      BY <2>3 DEF AckInterrupt, Reap, ScanDone, mem
    <2>4. ASSUME NEW v \in Vcpus, Notify(v) \/ Handler(v) \/ ResetBegin(v)
          PROVE  irqStatus' \/ irqPhase' = "scan" \/ OnItsWay'
      <3>t. thr \in [Vcpus -> Thread] /\ thr[v] \in Thread
        BY DEF TypeOK
      <3>o. ASSUME NEW w \in Vcpus, w # v, Coming(w)
            PROVE  OnItsWay'
        BY <2>4, <3>o, OthersStay DEF EndsWithFlags
      <3>k. ASSUME UNCHANGED <<drv, usedIdx, lastUsed, irqStatus, irqPhase>>,
                   Coming(v) => Coming(v)'
            PROVE  irqStatus' \/ irqPhase' = "scan" \/ OnItsWay'
        BY <3>k, <3>o, <2>b
      <3>l. Looping(v) => /\ EndsWithFlags(v) => EndsWithFlags(v)'
                          /\ thr'[v].pc = "loop" => EndsWithFlags(v)'
        BY LoopStep DEF Cursors
      <3>1. CASE Publish(v)
        <4>l. Looping(v) /\ thr[v].pc = "publish"
          BY <3>1 DEF Looping, Publish, At
        <4>1. queue.ring["used"] # NoRing
          BY <3>1, PublisherPhase DEF Publish, At
        <4>2. CASE Goto(v, "irq")
          <5>1. thr'[v].pc = "irq"
            BY <4>2, <3>t DEF Goto, Become, Thread
          <5> QED BY <5>1
        <4>3. CASE CountUnpublished
          BY <3>1, <3>k, <3>l, <4>l, <4>3 DEF Publish, CountUnpublished, driver
        <4>4. CASE "usedFlags" \in Faults /\ Become(v, NextEntry(thr[v]))
          <5>1. thr'[v].pc = "loop"
            BY <4>4, <3>t, NextEntryType DEF Become
          <5> QED BY <3>l, <4>l, <4>4, <5>1
        <4> QED BY <3>1, <4>1, <4>2, <4>3, <4>4 DEF Publish, ShouldNotify
      <3>2. CASE AddUsedError(v) \/ PublishError(v)
        <4>1. thr[v].errs # <<>>
          BY <3>2 DEF AddUsedError, PublishError, HandlersOK
        <4>2. thr'[v].pc \in {"errUsed", "errPublish"}
          <5>1. CASE Become(v, NextError(thr[v]))
            <6>1. thr'[v] = NextError(thr[v])
              BY <5>1, <3>t DEF Become
            <6> QED BY <6>1, <4>1, <3>t, NextErrorType
          <5>2. CASE Goto(v, "errPublish")
            BY <5>2, <3>t DEF Goto, Become, Thread
          <5> QED BY <3>2, <5>1, <5>2 DEF AddUsedError, PublishError
        <4> QED BY <4>2
      <3>3. CASE ErrorsDone(v)
        <4>1. CASE Goto(v, "endIrq")
          <5>1. thr'[v].pc = "endIrq"
            BY <4>1, <3>t DEF Goto, Become, Thread
          <5> QED BY <5>1
        <4>2. CASE ~ShouldNotify(queue)
          <5>1. queue.addr["used"] = NullAddr
            BY <4>2, AddrsHaveRings DEF ShouldNotify, TypeOK, RingName
          <5>2. drv \in {"desc", "avail", "used"}
            BY <3>3, <5>1 DEF ErrorsDone, PhasesOK, TypeOK, RingName, driver
          <5> QED BY <3>3, <5>2 DEF ErrorsDone, PhasesOK, mem, driver
        <4> QED BY <3>3, <4>1, <4>2 DEF ErrorsDone
      <3>4. CASE TriggerInterrupt(v) \/ TriggerLast(v)
        BY <3>4 DEF TriggerInterrupt, TriggerLast
      <3>5. CASE ResetBegin(v) \/ ResetQueues(v)
        BY <3>5 DEF ResetBegin, ResetQueues
      <3>6. CASE ResetRegisters(v)
        BY <3>6 DEF ResetRegisters, PhasesOK, At, driver
      <3>7. CASE FinishLoop(v)
        <4>1. thr'[v].pc = "errUsed"
          BY <3>7, <3>t DEF FinishLoop, Goto, Become, Thread
        <4> QED BY <4>1
      <3>8. CASE Looping(v) /\ ~Publish(v) /\ ~TriggerInterrupt(v)
        <4>1. UNCHANGED <<drv, usedIdx, lastUsed, irqStatus, irqPhase>>
          BY <3>8 DEF Looping, ReadAvailEntry, ParseRequest, Execute, WriteStatus, AddUsed,
                      FailRequest, mem, driver, device
        <4>2. thr[v].pc \notin {"irq", "endIrq", "errUsed", "errPublish"}
          BY <3>8 DEF Looping, ReadAvailEntry, ParseRequest, Execute, WriteStatus, AddUsed,
                      FailRequest, At
        <4> QED BY <3>8, <3>k, <3>l, <4>1, <4>2
      <3>9. CASE \/ Notify(v) \/ CheckReady(v) \/ CloneQueue(v) \/ ReadAvailIdx(v)
                 \/ NothingDone(v)
        <4>1. UNCHANGED <<drv, usedIdx, lastUsed, irqStatus, irqPhase>>
          BY <3>9 DEF Notify, CheckReady, CloneQueue, ReadAvailIdx, NothingDone,
                      mem, driver, device
        <4>2. ~Coming(v)
          BY <3>9 DEF Notify, CheckReady, CloneQueue, ReadAvailIdx, NothingDone, LoopOver,
                      Unprocessed, EndsWithFlags, At
        <4> QED BY <3>k, <4>1, <4>2
      <3> QED BY <2>4, <3>1, <3>2, <3>3, <3>4, <3>5, <3>6, <3>7, <3>8, <3>9
              DEF Handler, Looping
    <2>5. CASE UNCHANGED vars
      BY <2>5, <2>0 DEF vars, mem, driver, device
    <2> QED BY <2>1, <2>2, <2>3, <2>4, <2>5 DEF Next
  <1> QED BY <1>i, <1>c, <1>s, <1>1, Inductive, PTL DEF Spec

----------------------------------------------------------------------------
(* A guest with one vCPU. *)

SettingUp == {"init", "desc", "avail", "used", "ready", "ok"}

\* From a reset to DRIVER_OK no handler gets further than the test of the status, and
\* what the reset has cleared stays so.
FreshInv ==
  /\ drv = "reset" => \A v \in Vcpus : thr[v].pc \in {"rstIrq", "rstQueue"}
  /\ drv \in SettingUp \cup {"reset"} => ~driverOk
  /\ \A v \in Vcpus : At(v, "rstQueue") => ~irqStatus
  /\ drv \in SettingUp =>
       /\ \A v \in Vcpus : thr[v].pc \in {"idle", "ready"}
       /\ ~irqStatus /\ queue.nextAvail = 0 /\ queue.ring["avail"].idx = 0
  /\ drv \in SettingUp \ {"init"} => usedIdx = 0

\* A write of an address does not move a cursor.
LEMMA SetAddrCursor ==
  ASSUME NEW q \in Queue, NEW r \in RingName, NEW a,
         q.nextAvail = 0, q.ring["avail"].idx = 0
  PROVE  SetRingAddr(q, r, a).nextAvail = 0 /\ SetRingAddr(q, r, a).ring["avail"].idx = 0
  BY DEF SetRingAddr, NewRing, Queue, RingName

LEMMA FreshStep ==
  ASSUME IInv, FreshInv, [Next]_vars, \A v, w \in Vcpus : v = w
  PROVE  FreshInv'
  <1>t. thr \in [Vcpus -> Thread] /\ queue \in Queue
    BY DEF IInv, TypeOK
  <1>p. drv \in SettingUp \cup {"run", "reset"}
    BY DEF IInv, TypeOK, RingName, SettingUp
  <1>0. CASE UNCHANGED <<drv, driverOk, irqStatus, queue, usedIdx, thr>>
    BY <1>0 DEF FreshInv, At
  <1>1. CASE InitRings
    BY <1>1 DEF InitRings, FreshInv, device, SettingUp, At
  <1>2. ASSUME NEW r \in RingName, WriteRingAddr(r)
        PROVE  FreshInv'
    <2>1. drv \in SettingUp \ {"init"} /\ drv' \in SettingUp \ {"init"}
      BY <1>2 DEF WriteRingAddr, RingName, SettingUp
    <2>2. queue'.nextAvail = 0 /\ queue'.ring["avail"].idx = 0
      BY <1>2, <1>t, <2>1, SetAddrCursor DEF WriteRingAddr, FreshInv
    <2> QED BY <1>2, <2>1, <2>2 DEF WriteRingAddr, FreshInv, mem, SettingUp, At
  <1>3. CASE WriteQueueReady
    BY <1>3, <1>t DEF WriteQueueReady, FreshInv, SetReady, Queue, mem, SettingUp, At
  <1>4. CASE WriteDriverOk
    BY <1>4 DEF WriteDriverOk, FreshInv, mem, SettingUp, At
  <1>5. CASE AckInterrupt
    BY <1>5 DEF AckInterrupt, FreshInv, mem, SettingUp, At
  <1>6. CASE Reap \/ ScanDone \/ \E h \in Heads, k \in Kinds : Post(h, k)
    BY <1>6, <1>0 DEF Reap, ScanDone, Post, mem, device
  <1>7. ASSUME NEW v \in Vcpus, Notify(v) \/ Handler(v) \/ ResetBegin(v)
        PROVE  FreshInv'
    <2>v. Vcpus = {v}
      OBVIOUS
    <2>t. thr[v] \in Thread
      BY <1>t
    <2>1. CASE Notify(v)
      <3>1. thr'[v].pc = "ready"
        BY <2>1, <1>t, <2>t DEF Notify, Goto, Become, Thread
      <3> QED BY <2>1, <2>v, <3>1 DEF Notify, FreshInv, mem, device, At
    <2>2. CASE CheckReady(v)
      <3>1. thr'[v].pc = IF driverOk THEN "clone" ELSE "idle"
        BY <2>2, <1>t, <2>t DEF CheckReady, Goto, Return, Become, Thread, IdleThread
      <3> QED BY <2>2, <2>v, <3>1 DEF CheckReady, FreshInv, mem, driver, device, At
    <2>3. CASE ResetBegin(v)
      <3>1. thr'[v].pc = "rstIrq"
        BY <2>3, <1>t, <2>t DEF ResetBegin, Goto, Become, Thread
      <3> QED BY <2>3, <2>v, <3>1 DEF ResetBegin, FreshInv, SettingUp, At
    <2>4. CASE ResetRegisters(v)
      <3>1. thr'[v].pc = "rstQueue" /\ drv = "reset"
        BY <2>4, <1>t, <2>t DEF ResetRegisters, Goto, Become, Thread, IInv, PhasesOK, At
      <3> QED BY <2>4, <2>v, <3>1 DEF ResetRegisters, FreshInv, mem, driver, SettingUp, At
    <2>5. CASE ResetQueues(v)
      <3>1. thr'[v].pc = "idle" /\ thr[v].pc = "rstQueue" /\ drv = "reset"
        BY <2>5, <1>t, <2>t DEF ResetQueues, Return, Become, IdleThread, IInv, PhasesOK, At
      <3>2. queue'.nextAvail = 0 /\ queue'.ring["avail"].idx = 0
        BY <2>5, <1>t DEF ResetQueues, ResetQueue, NewQueue, NoRing, NewRing, RingName
      <3> QED BY <2>5, <2>v, <3>1, <3>2 DEF ResetQueues, FreshInv, mem, SettingUp, At
    <2>6. CASE Handler(v) /\ ~CheckReady(v) /\ ~ResetRegisters(v) /\ ~ResetQueues(v)
      <3>1. thr[v].pc \notin {"idle", "ready", "rstIrq", "rstQueue"}
        BY <2>6 DEF Handler, CloneQueue, ReadAvailIdx, ReadAvailEntry, ParseRequest, Execute,
                    WriteStatus, AddUsed, Publish, TriggerInterrupt, FailRequest, NothingDone,
                    FinishLoop, AddUsedError, PublishError, ErrorsDone, TriggerLast, LoopOver, At
      <3>2. drv = "run"
        BY <3>1, <1>p DEF FreshInv
      <3>3. drv' = drv
        BY <2>6 DEF Handler, CloneQueue, ReadAvailIdx, ReadAvailEntry, ParseRequest, Execute,
                    WriteStatus, AddUsed, Publish, TriggerInterrupt, FailRequest, NothingDone,
                    FinishLoop, AddUsedError, PublishError, ErrorsDone, TriggerLast, driver
      <3>4. thr'[v].pc # "rstQueue"
        <4>1. statusLock' = statusLock /\ statusLock # v
          BY <2>6, <3>1 DEF Handler, CloneQueue, ReadAvailIdx, ReadAvailEntry, ParseRequest,
                    Execute, WriteStatus, AddUsed, Publish, TriggerInterrupt, FailRequest,
                    NothingDone, FinishLoop, AddUsedError, PublishError, ErrorsDone,
                    TriggerLast, device, IInv, LockDiscipline
        <4>2. LockDiscipline'
          BY LockStep DEF IInv
        <4> QED BY <4>1, <4>2 DEF LockDiscipline
      <3> QED BY <2>v, <3>2, <3>3, <3>4 DEF FreshInv, SettingUp, At
    <2> QED BY <1>7, <2>1, <2>2, <2>3, <2>4, <2>5, <2>6
  <1> QED BY <1>0, <1>1, <1>2, <1>3, <1>4, <1>5, <1>6, <1>7 DEF Next, Setup, vars, mem, driver, device

\* With one vCPU a driver that sets the device up again finds nothing of the session
\* before: a handler on a second one can leave it behind (reset_device).
THEOREM FreshAfterReset ==
  ASSUME \A v, w \in Vcpus : v = w
  PROVE  Spec => []FreshSetup
  <1>1. Init => FreshInv
    BY DEF Init, FreshInv, NewQueue, NoRing, NewRing, IdleThread, SettingUp, RingName, At
  <1>2. FreshInv => FreshSetup
    BY DEF FreshInv, FreshSetup, LastAvail, SettingUp
  <1> QED BY <1>1, <1>2, FreshStep, Inductive, PTL DEF Spec
=============================================================================
