------------------------ MODULE BlkRefinementProofs ------------------------
(***************************************************************************)
(* Proof that the request path, entered by one vCPU at a time, implements    *)
(* the block service, for any queue size, any width of the indices, any      *)
(* requests and any set of failing memory accesses.  When the write of the   *)
(* used index fails, the next one exposes several requests at once.          *)
(*                                                                          *)
(* Where a request is decides what its status byte and the count of its      *)
(* backend calls are (Records); the driver sees them from the moment the     *)
(* used index passes the request.                                            *)
(***************************************************************************)
EXTENDS BlkSerialProofs, BlkRefinement

\* What a request is before the handler has executed it, and when it is answered.
Untouched(h) == statusByte[h] = "none" /\ execs[h] = 0

Answered(h) ==
  /\ chain[h] # "unmapped"
  /\ statusByte[h] \in Service!Answers(chain[h])
  /\ execs[h] = Service!Calls(chain[h])

\* What the place of a request says of it.
Records(v) ==
  drv = "run" =>
    /\ \A h \in Waiting(v) : Untouched(h)
    /\ thr[v].pc \in {"parse", "fail", "exec"} => Untouched(thr[v].desc)
    /\ thr[v].pc = "status" =>
         /\ statusByte[thr[v].desc] = "none"
         /\ thr[v].res \in Outcome(thr[v].req)
         /\ execs[thr[v].desc] = IF ReachesBackend(thr[v].req) THEN 1 ELSE 0
    /\ thr[v].pc \in {"used", "publish"} => Answered(thr[v].desc)
    /\ \A h \in ToSet(thr[v].errs) \cup Counted : Answered(h)

----------------------------------------------------------------------------
(* Steps and records. *)

SameRecord(h) ==
  chain'[h] = chain[h] /\ statusByte'[h] = statusByte[h] /\ execs'[h] = execs[h]

\* Requests nobody touches keep their records, and no other request joins those waiting.
LEMMA RecordsStay ==
  ASSUME NEW v \in Vcpus, Records(v), drv = "run", drv' = "run", Passed(v),
         outstanding' \subseteq outstanding,
         \A h \in Waiting(v) \cup ToSet(thr[v].errs) \cup Counted : SameRecord(h)
  PROVE  /\ \A h \in Waiting(v)' : Untouched(h)'
         /\ \A h \in ToSet(thr[v].errs) \cup Counted : Answered(h)'
  <1>1. ASSUME NEW h \in Waiting(v)'
        PROVE  Untouched(h)'
    <2>1. h \in Waiting(v)
      BY DEF Passed
    <2> QED BY <2>1 DEF Records, Untouched, SameRecord
  <1>2. ASSUME NEW h \in ToSet(thr[v].errs) \cup Counted
        PROVE  Answered(h)'
    BY DEF Records, Answered, SameRecord
  <1> QED BY <1>1, <1>2

\* The request in hand is nowhere else.
LEMMA HandElsewhere ==
  ASSUME NEW v \in Vcpus, Placed(v),
         thr[v].pc \in {"parse", "fail", "exec", "status", "used", "publish"}
  PROVE  thr[v].desc \notin Waiting(v) \cup ToSet(thr[v].errs) \cup Counted
  <1>1. Waiting(v) = RingWindow(availRing, CursorOf(thr[v], queue), availIdx)
    BY WaitingIs
  <1>2. HandOf(thr[v]) = {thr[v].desc}
    BY DEF HandOf
  <1> QED BY <1>1, <1>2 DEF Placed, InPlace, Apart, Counted

LEMMA PlacesInSlots ==
  ASSUME IInv, NEW v \in Vcpus
  PROVE  Waiting(v) \cup ToSet(thr[v].errs) \cup Counted \subseteq Slots
  <1>y. PlaceTypes(v)
    BY PlacesTyped
  <1>1. Waiting(v) \subseteq Slots
    BY <1>y, WaitingIs, WindowType DEF PlaceTypes
  <1>2. Counted \subseteq Slots
    BY <1>y, WindowType DEF PlaceTypes, Counted
  <1>3. ToSet(thr[v].errs) \subseteq Slots
    BY <1>y DEF PlaceTypes, ToSet
  <1> QED BY <1>1, <1>2, <1>3

\* Nothing is written but the record of the request in hand.
LEMMA OthersSame ==
  ASSUME IInv, NEW v \in Vcpus, Placed(v),
         thr[v].pc \in {"fail", "exec", "status"},
         chain' = chain,
         statusByte' = statusByte \/ \E s : statusByte' = [statusByte EXCEPT ![thr[v].desc] = s],
         execs' = execs \/ \E n : execs' = [execs EXCEPT ![thr[v].desc] = n]
  PROVE  \A h \in Waiting(v) \cup ToSet(thr[v].errs) \cup Counted : SameRecord(h)
  <1>1. statusByte \in [Slots -> Status] /\ execs \in [Slots -> 0 .. MaxExecs]
    BY DEF IInv, TypeOK
  <1>2. \A h \in Slots : h # thr[v].desc => statusByte'[h] = statusByte[h]
    BY <1>1
  <1>3. \A h \in Slots : h # thr[v].desc => execs'[h] = execs[h]
    BY <1>1
  <1> QED BY <1>2, <1>3, HandElsewhere, PlacesInSlots DEF SameRecord

LEMMA AnswersOwn ==
  ASSUME IInv, NEW v \in Vcpus, Placed(v), Execute(v) \/ WriteStatus(v) \/ FailRequest(v)
  PROVE  \A h \in Waiting(v) \cup ToSet(thr[v].errs) \cup Counted : SameRecord(h)
  <1> DEFINE d == thr[v].desc
  <1>1. thr[v].pc \in {"fail", "exec", "status"} /\ chain' = chain
    BY DEF Execute, WriteStatus, FailRequest, At, mem
  <1>2. statusByte' = statusByte \/ \E s : statusByte' = [statusByte EXCEPT ![d] = s]
    BY DEF Execute, WriteStatus, FailRequest, mem
  <1>3. execs' = execs \/ \E n : execs' = [execs EXCEPT ![d] = n]
    BY DEF Execute, WriteStatus, FailRequest, driver
  <1> QED BY <1>1, <1>2, <1>3, OthersSame

\* Execution, the status byte, and a request that fails to parse.
LEMMA AnswerRecords ==
  ASSUME IInv, NEW v \in Vcpus, SerialInv(v), Records(v), drv = "run", drv' = "run",
         Passed(v), Execute(v) \/ WriteStatus(v) \/ FailRequest(v)
  PROVE  Records(v)'
  <1> DEFINE t == thr[v]
  <1>h. PICK h : h = t.desc
    OBVIOUS
  <1>t. /\ t \in Thread /\ thr \in [Vcpus -> Thread] /\ h \in Slots
        /\ chain \in [Slots -> Kind] /\ statusByte \in [Slots -> Status]
        /\ execs \in [Slots -> 0 .. MaxExecs]
    BY <1>h DEF IInv, TypeOK, Thread
  <1>p. t.pc \in {"fail", "exec", "status"}
    BY DEF Execute, WriteStatus, FailRequest, At
  <1>w. Placed(v) /\ t.req = chain[h] /\ (t.pc = "fail" <=> t.req \in {"bad", "nostatus"})
    BY <1>p, <1>h DEF SerialInv, Sees
  <1>u. UNCHANGED <<chain, outstanding, usedRing, lastUsed, queue>>
    BY DEF Execute, WriteStatus, FailRequest, mem, driver, device
  <1>c. Counted' = Counted
    BY <1>u DEF Counted
  <1>s. \A g \in Waiting(v) \cup ToSet(t.errs) \cup Counted : SameRecord(g)
    BY <1>w, AnswersOwn
  <1>r. /\ \A g \in Waiting(v)' : Untouched(g)'
        /\ \A g \in ToSet(t.errs) \cup Counted : Answered(g)'
    BY <1>u, <1>s, RecordsStay
  <1>1. CASE Execute(v)
    <2>e. t.pc = "exec"
      BY <1>1 DEF Execute, At
    <2>1. PICK r \in Outcome(t.req) : Become(v, [t EXCEPT !.pc = "status", !.res = r])
      BY <1>1 DEF Execute
    <2>2. /\ thr'[v].pc = "status" /\ thr'[v].req = t.req /\ thr'[v].res = r
          /\ thr'[v].desc = h /\ thr'[v].errs = t.errs
      BY <1>t, <1>h, <2>1 DEF Become, Thread
    <2>3. statusByte[h] = "none" /\ execs[h] = 0
      BY <2>e, <1>h DEF Records, Untouched
    <2>4. /\ statusByte' = statusByte
          /\ execs' = [execs EXCEPT ![h] = IF ReachesBackend(t.req) /\ @ < MaxExecs
                                           THEN @ + 1 ELSE @]
      BY <1>1, <1>h DEF Execute, mem
    <2>5. execs'[h] = IF ReachesBackend(t.req) THEN 1 ELSE 0
      BY <1>t, <2>3, <2>4 DEF MaxExecs
    <2> QED BY <1>r, <1>c, <2>1, <2>2, <2>3, <2>4, <2>5 DEF Records
  <1>2. CASE WriteStatus(v)
    <2>e. t.pc = "status"
      BY <1>2 DEF WriteStatus, At
    <2>1. CASE StatusWritable(h)
      <3>1. thr'[v].pc = "used" /\ SameLocals(thr'[v], t)
        BY <1>2, <1>h, <2>1, GotoFields DEF WriteStatus, PC
      <3>2. statusByte'[h] = t.res /\ execs' = execs
        BY <1>2, <1>t, <1>h, <2>1 DEF WriteStatus, driver
      <3>3. chain[h] \in {"ok", "unsupp", "nodata"}
        BY <1>t, <1>w, <2>e, <2>1 DEF StatusWritable, Kind
      <3>4. t.res \in Outcome(t.req) /\ execs[h] = IF ReachesBackend(t.req) THEN 1 ELSE 0
        BY <2>e, <1>h DEF Records
      <3>5. t.res \in Service!Answers(chain[h]) /\ execs[h] = Service!Calls(chain[h])
        BY <1>w, <3>3, <3>4 DEF Outcome, ReachesBackend, Service!Answers, Service!Calls
      <3>6. Answered(h)'
        BY <1>u, <3>2, <3>3, <3>5 DEF Answered
      <3> QED BY <1>r, <1>c, <1>h, <3>1, <3>6 DEF Records, SameLocals
    <2>2. CASE ~StatusWritable(h)
      <3>1. thr'[v].pc = "loop" /\ thr'[v].errs = t.errs
        BY <1>2, <1>h, <2>2, EntryFields DEF WriteStatus
      <3> QED BY <1>r, <1>c, <3>1 DEF Records
    <2> QED BY <2>1, <2>2
  <1>3. CASE FailRequest(v)
    <2>e. t.pc = "fail"
      BY <1>3 DEF FailRequest, At
    <2>1. thr'[v].pc = "loop" /\ thr'[v].errs = Append(t.errs, h)
      BY <1>3, <1>h, FailFields DEF FailRequest
    <2>2. ToSet(thr'[v].errs) = ToSet(t.errs) \cup {h}
      <3>1. t.errs \in Seq(Slots)
        BY <1>t DEF Thread
      <3> QED BY <1>t, <2>1, <3>1, ErrsAppend
    <2>3. /\ statusByte' = IF StatusWritable(h) THEN [statusByte EXCEPT ![h] = "IOERR"]
                           ELSE statusByte
          /\ execs' = execs
      BY <1>3, <1>h DEF FailRequest, driver
    <2>4. Untouched(h) /\ chain[h] \in {"bad", "nostatus"}
      BY <1>w, <1>h, <2>e DEF Records
    <2>5. /\ chain'[h] = chain[h] /\ execs'[h] = 0
          /\ chain[h] = "bad" => statusByte'[h] = "IOERR"
          /\ chain[h] = "nostatus" => statusByte'[h] = "none"
      BY <1>t, <1>u, <2>3, <2>4 DEF Untouched, StatusWritable
    <2>6. Service!Answers("bad") = {"IOERR"} /\ Service!Answers("nostatus") = {"none"}
          /\ Service!Calls("bad") = 0 /\ Service!Calls("nostatus") = 0
      BY DEF Service!Answers, Service!Calls
    <2>7. Answered(h)'
      BY <2>4, <2>5, <2>6 DEF Answered
    <2>8. \A g \in ToSet(thr'[v].errs) \cup Counted' : Answered(g)'
      BY <1>r, <1>c, <2>2, <2>7
    <2> QED BY <1>r, <2>1, <2>8 DEF Records
  <1> QED BY <1>1, <1>2, <1>3

\* A step that writes no record and lets requests only go on from place to place.
LEMMA RecordsMove ==
  ASSUME NEW v \in Vcpus, Records(v), drv = "run", drv' = "run", Passed(v),
         UNCHANGED <<chain, statusByte, execs>>, outstanding' \subseteq outstanding,
         thr'[v].pc \in {"parse", "fail", "exec"} =>
           \/ thr'[v].desc \in Waiting(v)
           \/ thr[v].pc \in {"parse", "fail", "exec"} /\ thr'[v].desc = thr[v].desc,
         thr'[v].pc = "status" => thr'[v] = thr[v],
         thr'[v].pc \in {"used", "publish"} =>
           thr[v].pc \in {"used", "publish"} /\ thr'[v].desc = thr[v].desc,
         \A h \in ToSet(thr'[v].errs) \cup Counted' :
           \/ h \in ToSet(thr[v].errs) \cup Counted
           \/ thr[v].pc = "publish" /\ h = thr[v].desc
  PROVE  Records(v)'
  <1>1. \A h : SameRecord(h)
    BY DEF SameRecord
  <1>2. /\ \A h : Untouched(h)' <=> Untouched(h)
        /\ \A h : Answered(h)' <=> Answered(h)
    BY DEF Untouched, Answered
  <1>3. \A h \in Waiting(v)' : Untouched(h)'
    BY <1>1, RecordsStay
  <1>d. PICK d : d = thr'[v].desc
    OBVIOUS
  <1>4. thr'[v].pc \in {"parse", "fail", "exec"} => Untouched(d)'
    BY <1>2, <1>d DEF Records
  <1>5. thr'[v].pc \in {"used", "publish"} => Answered(d)'
    BY <1>2, <1>d DEF Records
  <1>6. \A h \in ToSet(thr'[v].errs) \cup Counted' : Answered(h)'
    BY <1>2 DEF Records
  <1>7. thr'[v].pc = "status" =>
          /\ statusByte'[d] = "none"
          /\ thr'[v].res \in Outcome(thr'[v].req)
          /\ execs'[d] = IF ReachesBackend(thr'[v].req) THEN 1 ELSE 0
    BY <1>d DEF Records
  <1> QED BY <1>3, <1>d, <1>4, <1>5, <1>6, <1>7 DEF Records

\* Before the loop, at its end, and on to the next entry: nothing comes into the
\* handler's hand.
LEMMA OtherRecords ==
  ASSUME IInv, NEW v \in Vcpus, SerialInv(v), Records(v), drv = "run", drv' = "run",
         Passed(v), Counted' = Counted,
         \/ Notify(v) \/ CheckReady(v) \/ CloneQueue(v) \/ ReadAvailIdx(v)
         \/ TriggerInterrupt(v) \/ NothingDone(v) \/ FinishLoop(v) \/ ErrorsDone(v)
         \/ TriggerLast(v)
  PROVE  Records(v)'
  <1>t. thr[v] \in Thread /\ thr \in [Vcpus -> Thread]
    BY DEF IInv, TypeOK
  <1>1. UNCHANGED <<chain, statusByte, execs, outstanding>>
    BY DEF Notify, CheckReady, CloneQueue, ReadAvailIdx, TriggerInterrupt, NothingDone,
           FinishLoop, ErrorsDone, TriggerLast, mem, driver
  <1>2. /\ thr'[v].pc \in {"idle", "ready", "clone", "avail", "loop", "errUsed", "endIrq"}
        /\ thr'[v].errs \in {<<>>, thr[v].errs}
    <2>1. \/ Return(v) \/ Become(v, NextEntry(thr[v]))
          \/ \E pc \in {"ready", "clone", "errUsed", "endIrq"} : Goto(v, pc)
          \/ Become(v, [thr[v] EXCEPT !.pc = "avail", !.snap = queue])
          \/ Become(v, [thr[v] EXCEPT !.pc = "loop", !.seen = availIdx,
                                      !.cur = LastAvail(thr[v].snap)])
      BY DEF Notify, CheckReady, CloneQueue, ReadAvailIdx, TriggerInterrupt, NothingDone,
             FinishLoop, ErrorsDone, TriggerLast
    <2>2. CASE Return(v)
      BY <2>2, ReturnFields
    <2>3. CASE Become(v, NextEntry(thr[v]))
      BY <2>3, EntryFields
    <2>4. ASSUME NEW pc \in {"ready", "clone", "errUsed", "endIrq"}, Goto(v, pc)
          PROVE  thr'[v].pc = pc /\ thr'[v].errs = thr[v].errs
      BY <2>4, GotoFields DEF PC, SameLocals
    <2>5. CASE Become(v, [thr[v] EXCEPT !.pc = "avail", !.snap = queue])
      BY <2>5, <1>t DEF Become, Thread
    <2>6. CASE Become(v, [thr[v] EXCEPT !.pc = "loop", !.seen = availIdx,
                                        !.cur = LastAvail(thr[v].snap)])
      BY <2>6, <1>t DEF Become, Thread
    <2> QED BY <2>1, <2>2, <2>3, <2>4, <2>5, <2>6
  <1>3. \A h \in ToSet(thr'[v].errs) \cup Counted' : h \in ToSet(thr[v].errs) \cup Counted
    BY <1>2, ErrsEmpty
  <1> QED BY <1>1, <1>2, <1>3, RecordsMove

\* The steps that take a request into the handler's hand and put it on the used ring.
LEMMA HandRecords ==
  ASSUME IInv, FreshInv, NEW v \in Vcpus, SerialInv(v), Records(v), drv = "run",
         drv' = "run", Passed(v), Counted' = Counted,
         ReadAvailEntry(v) \/ ParseRequest(v) \/ AddUsed(v) \/ AddUsedError(v)
  PROVE  Records(v)'
  <1>t. thr[v] \in Thread /\ thr \in [Vcpus -> Thread] /\ thr[v].errs \in Seq(Slots)
    BY DEF IInv, TypeOK, Thread
  <1>1. UNCHANGED <<chain, statusByte, execs, outstanding>>
    BY DEF ReadAvailEntry, ParseRequest, AddUsed, AddUsedError, mem, driver
  <1>2. ASSUME thr'[v].pc = "loop", thr'[v].errs = thr[v].errs
        PROVE  Records(v)'
    BY <1>1, <1>2, RecordsMove
  <1>3. CASE ReadAvailEntry(v)
    <2>1. thr'[v].pc = "parse" => thr'[v].desc \in Waiting(v)
      BY <1>3, TakeStep
    <2>2. thr'[v].pc \in {"parse", "loop"} /\ thr'[v].errs = thr[v].errs
      <3>1. CASE Become(v, [thr[v] EXCEPT !.pc = "parse",
                              !.desc = availRing[AvailSlot(thr[v].snap, thr[v].cur)]])
        BY <3>1, <1>t DEF Become, Thread
      <3>2. CASE Become(v, NextEntry(thr[v]))
        BY <3>2, EntryFields
      <3> QED BY <1>3, <3>1, <3>2 DEF ReadAvailEntry
    <2> QED BY <1>1, <2>1, <2>2, RecordsMove
  <1>4. CASE ParseRequest(v)
    <2>1. /\ thr[v].pc = "parse" /\ thr'[v].pc \in {"fail", "exec"}
          /\ thr'[v].desc = thr[v].desc /\ thr'[v].errs = thr[v].errs
      BY <1>4, <1>t DEF ParseRequest, At, Become, Thread
    <2> QED BY <1>1, <2>1, RecordsMove
  <1>5. CASE AddUsed(v)
    <2>1. thr[v].pc = "used"
      BY <1>5 DEF AddUsed, At
    <2>2. CASE Goto(v, "publish")
      <3>1. /\ thr'[v].pc = "publish" /\ thr'[v].desc = thr[v].desc
            /\ thr'[v].errs = thr[v].errs
        BY <2>2, GotoFields DEF PC, SameLocals
      <3> QED BY <1>1, <2>1, <3>1, RecordsMove
    <2>3. CASE Become(v, NextEntry(thr[v]))
      BY <2>3, <1>2, EntryFields
    <2> QED BY <1>5, <2>2, <2>3 DEF AddUsed
  <1>6. CASE AddUsedError(v)
    <2>1. thr[v].errs # <<>>
      BY <1>6 DEF AddUsedError
    <2>2. thr'[v].pc \in {"errUsed", "errPublish"} /\ thr'[v].errs \in {thr[v].errs, Tail(thr[v].errs)}
      <3>1. CASE Goto(v, "errPublish")
        BY <3>1, GotoFields DEF PC, SameLocals
      <3>2. CASE Become(v, NextError(thr[v]))
        BY <3>2, ErrorFields
      <3> QED BY <1>6, <3>1, <3>2 DEF AddUsedError
    <2>3. ToSet(Tail(thr[v].errs)) \subseteq ToSet(thr[v].errs)
      BY <1>t, <2>1, ErrsTail
    <2>4. ToSet(thr'[v].errs) \subseteq ToSet(thr[v].errs)
      BY <2>2, <2>3
    <2> QED BY <1>1, <2>2, <2>4, RecordsMove
  <1> QED BY <1>3, <1>4, <1>5, <1>6

\* The steps that count a request and the one that reaps it.
LEMMA CountRecords ==
  ASSUME IInv, FreshInv, PublishesOwnElement, NEW v \in Vcpus, SerialInv(v), Records(v),
         drv' = "run", Publish(v) \/ PublishError(v) \/ Reap
  PROVE  Records(v)'
  <1>t. thr[v] \in Thread /\ thr[v].errs \in Seq(Slots)
    BY DEF IInv, TypeOK, Thread
  <1>1. UNCHANGED <<chain, statusByte, execs>>
    BY DEF Publish, PublishError, Reap, mem, driver
  <1>2. CASE Publish(v)
    <2>1. /\ Passed(v) /\ drv = "run" /\ outstanding' = outstanding
          /\ Counted' = Counted \cup {thr[v].desc}
      BY <1>2, PublishStep DEF Keeps
    <2>2. thr[v].pc = "publish"
      BY <1>2 DEF Publish, At
    <2>3. thr'[v].pc \in {"irq", "loop"} /\ thr'[v].errs = thr[v].errs
      BY <1>2, GotoFields, EntryFields DEF Publish, PC, SameLocals
    <2> QED BY <1>1, <2>1, <2>2, <2>3, RecordsMove
  <1>3. CASE PublishError(v)
    <2>1. /\ Passed(v) /\ drv = "run" /\ outstanding' = outstanding
          /\ thr[v].errs # <<>> /\ Counted' = Counted \cup {Head(thr[v].errs)}
      BY <1>3, PublishErrorStep DEF Keeps
    <2>2. thr'[v].pc = "errUsed" /\ thr'[v].errs = Tail(thr[v].errs)
      BY <1>3, ErrorFields DEF PublishError
    <2>3. ToSet(thr[v].errs) = ToSet(Tail(thr[v].errs)) \cup {Head(thr[v].errs)}
      BY <1>t, <2>1, ErrsTail
    <2>4. \A h \in ToSet(thr'[v].errs) \cup Counted' : h \in ToSet(thr[v].errs) \cup Counted
      BY <2>1, <2>2, <2>3
    <2> QED BY <1>1, <2>1, <2>2, <2>4, RecordsMove
  <1>4. CASE Reap
    <2>1. /\ Passed(v) /\ drv = "run" /\ outstanding' \subseteq outstanding
          /\ Counted' \subseteq Counted
      BY <1>4, ReapStep DEF Keeps
    <2>2. thr' = thr
      BY <1>4 DEF Reap
    <2> QED BY <1>1, <2>1, <2>2, RecordsMove
  <1> QED BY <1>2, <1>3, <1>4

\* Whatever is somewhere is outstanding.
LEMMA PlacesOutstanding ==
  ASSUME NEW v \in Vcpus, Placed(v)
  PROVE  /\ Waiting(v) \cup ToSet(thr[v].errs) \cup Counted \subseteq outstanding
         /\ thr[v].pc \in {"parse", "fail", "exec", "status", "used", "publish"} =>
              thr[v].desc \in outstanding
  <1>1. Waiting(v) = RingWindow(availRing, CursorOf(thr[v], queue), availIdx)
    BY WaitingIs
  <1> QED BY <1>1 DEF Placed, InPlace, Counted, HandOf

\* A new request waits, untouched; no other has its head.
LEMMA PostRecords ==
  ASSUME IInv, FreshInv, NEW v \in Vcpus, SerialInv(v), Records(v),
         NEW h \in Heads, NEW k \in Kinds, Post(h, k), Counted' = Counted
  PROVE  Records(v)'
  <1>t. /\ chain \in [Slots -> Kind] /\ statusByte \in [Slots -> Status]
        /\ execs \in [Slots -> 0 .. MaxExecs] /\ h \in Slots
        /\ outstanding \subseteq Slots
    BY DeviceAssumption DEF IInv, TypeOK
  <1>u. /\ thr' = thr /\ drv' = drv /\ drv = "run"
        /\ h \notin outstanding /\ outstanding' = outstanding \cup {h}
        /\ chain' = [chain EXCEPT ![h] = k]
        /\ statusByte' = [statusByte EXCEPT ![h] = "none"]
        /\ execs' = [execs EXCEPT ![h] = 0]
    BY DEF Post
  <1>p. /\ Passed(v)
        /\ Waiting(v) \cup ToSet(thr[v].errs) \cup Counted \subseteq outstanding
        /\ thr[v].pc \in {"parse", "fail", "exec", "status", "used", "publish"} =>
             thr[v].desc \in outstanding
    BY <1>u, PostStep, PlacesOutstanding DEF Keeps, SerialInv
  <1>s. \A g \in outstanding : SameRecord(g)
    BY <1>t, <1>u DEF SameRecord
  <1>n. \A g \in outstanding : (Untouched(g)' <=> Untouched(g)) /\ (Answered(g)' <=> Answered(g))
    BY <1>s DEF SameRecord, Untouched, Answered
  <1>1. \A g \in Waiting(v)' : Untouched(g)'
    <2>1. Untouched(h)'
      BY <1>t, <1>u DEF Untouched
    <2> QED BY <1>u, <1>p, <1>n, <2>1 DEF Records, Passed
  <1>2. \A g \in ToSet(thr'[v].errs) \cup Counted' : Answered(g)'
    BY <1>u, <1>p, <1>n DEF Records
  <1>d. PICK d : d = thr[v].desc /\ d = thr'[v].desc
    BY <1>u
  <1>3. thr[v].pc \in {"parse", "fail", "exec"} => Untouched(d)'
    BY <1>u, <1>p, <1>n, <1>d DEF Records
  <1>4. thr[v].pc \in {"used", "publish"} => Answered(d)'
    BY <1>u, <1>p, <1>n, <1>d DEF Records
  <1>5. thr[v].pc = "status" => SameRecord(d)
    BY <1>p, <1>s, <1>d
  <1> QED BY <1>u, <1>1, <1>2, <1>d, <1>3, <1>4, <1>5 DEF Records, SameRecord

\* The driver stops and starts the queue or serves an interrupt, or nothing happens.
LEMMA DriverRecords ==
  ASSUME NEW v \in Vcpus, Records(v), drv = "run", drv' = "run", Passed(v),
         Counted' = Counted,
         Setup \/ AckInterrupt \/ ScanDone \/ UNCHANGED vars
  PROVE  Records(v)'
  <1>1. UNCHANGED <<chain, statusByte, execs, outstanding, thr>>
    BY DEF Setup, InitRings, WriteQueueReady, WriteDriverOk, WriteRingAddr, AckInterrupt,
           ScanDone, vars, mem, driver, RingName
  <1> QED BY <1>1, RecordsMove

\* No other step sets the driver running.
LEMMA OnlyDriverOk ==
  ASSUME [Next]_vars, drv # "run", drv' = "run"
  PROVE  WriteDriverOk
  BY DEF Next, Setup, InitRings, WriteQueueReady, WriteRingAddr, Post, AckInterrupt, Reap,
         ScanDone, Notify, Handler, CheckReady, CloneQueue, ReadAvailIdx, ReadAvailEntry,
         ParseRequest, Execute, WriteStatus, AddUsed, Publish, TriggerInterrupt, FailRequest,
         NothingDone, FinishLoop, AddUsedError, PublishError, ErrorsDone, TriggerLast,
         ResetBegin, ResetRegisters, ResetQueues, vars, driver, RingName

\* Once the driver has set the device up there are no requests yet.
LEMMA StartRecords ==
  ASSUME IInv, FreshInv, NEW v \in Vcpus, SerialInv(v), [Next]_vars,
         drv # "run", drv' = "run", SerialInv(v)'
  PROVE  Records(v)'
  <1>1. WriteDriverOk
    BY OnlyDriverOk
  <1>2. thr' = thr /\ outstanding' = {} /\ thr[v].pc \in {"idle", "ready"}
    BY <1>1 DEF WriteDriverOk, SerialInv, SetUpOK, FreshInv, SettingUp
  <1>3. \A h : /\ h \notin Waiting(v)' /\ h \notin ToSet(thr'[v].errs)
               /\ h \notin Counted'
    <2>1. /\ Waiting(v)' = RingWindow(availRing', CursorOf(thr'[v], queue'), availIdx')
          /\ Counted' = RingWindow(usedRing', lastUsed', queue'.ring["used"].idx)
      BY WaitingIs DEF Counted
    <2> QED BY <1>2, <2>1 DEF SerialInv, Placed, InPlace
  <1> QED BY <1>2, <1>3 DEF Records

LEMMA RecordsStep ==
  ASSUME IInv, FreshInv, PublishesOwnElement, NEW v, Vcpus = {v}, SerialInv(v), Records(v),
         [Next]_vars
  PROVE  Records(v)'
  <1>v. v \in Vcpus
    OBVIOUS
  <1>k. SerialInv(v)' /\ Passed(v)
    BY SerialStep DEF Keeps
  <1> SUFFICES ASSUME drv' = "run" PROVE Records(v)'
    BY DEF Records
  <1>1. CASE drv # "run"
    BY <1>1, <1>v, <1>k, StartRecords
  <1>2. CASE Publish(v) \/ PublishError(v) \/ Reap
    BY <1>2, <1>v, CountRecords
  <1>3. CASE drv = "run" /\ ~(Publish(v) \/ PublishError(v) \/ Reap)
    <2>1. Counted' = Counted
      BY <1>3, <1>k DEF Passed
    <2>2. CASE Setup \/ AckInterrupt \/ ScanDone \/ UNCHANGED vars
      BY <1>3, <1>v, <1>k, <2>1, <2>2, DriverRecords
    <2>3. ASSUME NEW h \in Heads, NEW k \in Kinds, Post(h, k)
          PROVE  Records(v)'
      BY <1>v, <2>1, <2>3, PostRecords
    <2>4. CASE Execute(v) \/ WriteStatus(v) \/ FailRequest(v)
      BY <1>3, <1>v, <1>k, <2>4, AnswerRecords
    <2>5. CASE ReadAvailEntry(v) \/ ParseRequest(v) \/ AddUsed(v) \/ AddUsedError(v)
      BY <1>3, <1>v, <1>k, <2>1, <2>5, HandRecords
    <2>6. CASE \/ Notify(v) \/ CheckReady(v) \/ CloneQueue(v) \/ ReadAvailIdx(v)
               \/ TriggerInterrupt(v) \/ NothingDone(v) \/ FinishLoop(v) \/ ErrorsDone(v)
               \/ TriggerLast(v)
      BY <1>3, <1>v, <1>k, <2>1, <2>6, OtherRecords
    <2>7. CASE ResetBegin(v) \/ ResetRegisters(v) \/ ResetQueues(v)
      BY <2>7, <1>v DEF ResetBegin, ResetRegisters, ResetQueues, At, IInv, PhasesOK, driver
    <2>8. Setup \/ (\E h \in Heads, k \in Kinds : Post(h, k)) \/ AckInterrupt \/ Reap \/ ScanDone
          \/ UNCHANGED vars \/ Notify(v) \/ Handler(v) \/ ResetBegin(v)
      BY DEF Next
    <2> QED BY <1>3, <2>2, <2>3, <2>4, <2>5, <2>6, <2>7, <2>8 DEF Handler
  <1> QED BY <1>1, <1>2, <1>3

LEMMA Recorded ==
  ASSUME NEW v, Vcpus = {v}
  PROVE  Spec => []Records(v)
  <1>1. Init => Records(v)
    BY DEF Init, Records
  <1>2. IInv /\ PublishesOwnElement /\ FreshInv /\ SerialInv(v) /\ Records(v) /\ [Next]_vars
          => Records(v)'
    BY RecordsStep
  <1>3. Spec => [](FreshInv /\ SerialInv(v))
    BY Serial
  <1> QED BY <1>1, <1>2, <1>3, Inductive, OwnElement, PTL DEF Spec

----------------------------------------------------------------------------
(* What the driver sees. *)

\* The used index of the driver is behind the device's if a write of it has failed, and
\* is the device's after a write that has not.
LEMMA ExposedCounted ==
  ASSUME IInv, NEW v \in Vcpus, Placed(v), NotAhead
  PROVE  /\ Exposed \subseteq Counted
         /\ NoRepeat(usedRing, lastUsed, usedIdx)
  <1> DEFINE u == queue.ring["used"].idx
  <1>1. lastUsed \in Idx /\ u \in Idx /\ usedIdx \in Idx
    BY PlacesTyped DEF PlaceTypes
  <1>2. Dist(lastUsed, usedIdx) <= Dist(lastUsed, u) /\ NoRepeat(usedRing, lastUsed, u)
    BY DEF NotAhead, Placed, InPlace
  <1>3. Counted = RingWindow(usedRing, lastUsed, u)
    BY DEF Counted
  <1> HIDE DEF u
  <1> QED BY <1>1, <1>2, <1>3, WindowPrefix DEF Exposed

\* An element that is written stays out of the driver's sight.
LEMMA ElementHidden ==
  ASSUME IInv, FreshInv, NEW v \in Vcpus, SerialInv(v), AddUsed(v) \/ AddUsedError(v)
  PROVE  Exposed' = Exposed
  <1> DEFINE u == queue.ring["used"].idx
  <1>1. UNCHANGED <<lastUsed, usedIdx>>
    BY DEF AddUsed, AddUsedError, driver
  <1>2. /\ thr[v].pc \in {"used", "errUsed"}
        /\ thr[v].pc = "used" <=> AddUsed(v)
        /\ thr[v].pc = "errUsed" => thr[v].errs # <<>>
    BY DEF AddUsed, AddUsedError, At
  <1>3. /\ drv = "run" /\ Placed(v) /\ NotAhead
        /\ UsedSlot(queue) = u % MaxQueueSize
    BY <1>2, AtWork
  <1>4. /\ usedRing \in [Slots -> Slots] /\ lastUsed \in Idx /\ u \in Idx /\ usedIdx \in Idx
        /\ thr[v].desc \in Slots /\ thr[v].errs \in Seq(Slots)
    BY PlacesTyped DEF PlaceTypes
  <1>5. ASSUME usedRing' # usedRing
        PROVE  \E h \in HandOf(thr[v]) \cup ToSet(thr[v].errs) :
                 h \in Slots /\ usedRing' = Put(usedRing, u, h)
    <2>1. CASE AddUsed(v)
      <3>1. usedRing' = Put(usedRing, u, thr[v].desc)
        BY <1>3, <1>5, <2>1 DEF AddUsed, WriteUsedElem, Put
      <3>2. thr[v].desc \in HandOf(thr[v])
        BY <1>2, <2>1 DEF HandOf
      <3> QED BY <1>4, <3>1, <3>2
    <2>2. CASE AddUsedError(v)
      <3>1. usedRing' = Put(usedRing, u, Head(thr[v].errs)) /\ thr[v].errs # <<>>
        BY <1>3, <1>5, <2>2 DEF AddUsedError, WriteUsedElem, Put
      <3>2. Head(thr[v].errs) \in ToSet(thr[v].errs) /\ Head(thr[v].errs) \in Slots
        BY <1>4, <3>1, ErrsTail
      <3> QED BY <3>1, <3>2
    <2> QED BY <2>1, <2>2
  <1>6. CASE usedRing' = usedRing
    BY <1>1, <1>6 DEF Exposed
  <1>7. CASE usedRing' # usedRing
    <2>1. PICK h \in HandOf(thr[v]) \cup ToSet(thr[v].errs) :
            h \in Slots /\ usedRing' = Put(usedRing, u, h)
      BY <1>5, <1>7
    <2>2. h \notin RingWindow(usedRing, lastUsed, u) /\ NoRepeat(usedRing, lastUsed, u)
      BY <1>3, <2>1 DEF Placed, InPlace, Apart
    <2>3. Dist(lastUsed, usedIdx) <= Dist(lastUsed, u)
      BY <1>3 DEF NotAhead
    <2> HIDE DEF u
    <2>4. Dist(lastUsed, u) < MaxQueueSize
      BY <1>4, <2>1, <2>2, WindowRoom
    <2>5. RingWindow(Put(usedRing, u, h), lastUsed, usedIdx)
            = RingWindow(usedRing, lastUsed, usedIdx)
      BY <1>4, <2>1, <2>3, <2>4, PrefixStays
    <2> QED BY <1>1, <2>1, <2>5 DEF Exposed
  <1> QED BY <1>6, <1>7

\* Only the write of the used index and the driver itself change what is exposed.
LEMMA ExposedStays ==
  ASSUME IInv, FreshInv, NEW v, Vcpus = {v}, SerialInv(v), [Next]_vars, drv = "run",
         ~Publish(v), ~PublishError(v), ~Reap
  PROVE  Exposed' = Exposed
  <1>1. CASE AddUsed(v) \/ AddUsedError(v)
    BY <1>1, ElementHidden
  <1>2. CASE ~AddUsed(v) /\ ~AddUsedError(v)
    <2>1. UNCHANGED <<usedRing, lastUsed, usedIdx>>
      BY <1>2 DEF Next, Setup, InitRings, WriteQueueReady, WriteDriverOk, WriteRingAddr, Post,
             AckInterrupt, ScanDone, Notify, Handler, CheckReady, CloneQueue, ReadAvailIdx,
             ReadAvailEntry, ParseRequest, Execute, WriteStatus, TriggerInterrupt,
             FailRequest, NothingDone, FinishLoop, ErrorsDone, TriggerLast, ResetBegin,
             ResetRegisters, ResetQueues, vars, mem, driver
    <2> QED BY <2>1 DEF Exposed
  <1> QED BY <1>1, <1>2

----------------------------------------------------------------------------
(* Steps of the device and steps of the service. *)

Pending(h) == [state |-> "pending", kind |-> chain[h], status |-> "none", calls |-> 0]
Done(h) == [state |-> "done", kind |-> chain[h], status |-> statusByte[h], calls |-> execs[h]]

LEMMA SeenIs ==
  ASSUME NEW h
  PROVE  /\ h \notin outstanding => Seen(h) = Service!Free
         /\ h \notin outstanding' => Seen(h)' = Service!Free
         /\ h \in outstanding => Seen(h) = IF h \in Exposed THEN Done(h) ELSE Pending(h)
         /\ h \in outstanding' =>
              Seen(h)' = IF h \in Exposed' THEN Done(h)' ELSE Pending(h)'
  <1>1. h \notin outstanding => Seen(h) = Service!Free
    BY DEF Seen, Service!Free
  <1>2. h \notin outstanding' => Seen(h)' = Service!Free
    BY DEF Seen, Service!Free
  <1>3. h \in outstanding => Seen(h) = IF h \in Exposed THEN Done(h) ELSE Pending(h)
    BY DEF Seen, Done, Pending
  <1>4. h \in outstanding' => Seen(h)' = IF h \in Exposed' THEN Done(h)' ELSE Pending(h)'
    BY DEF Seen, Done, Pending
  <1> QED BY <1>1, <1>2, <1>3, <1>4

\* A request whose place and record stay looks the same.
LEMMA SeenStays ==
  ASSUME NEW h, h \in outstanding' <=> h \in outstanding,
         h \in outstanding => /\ h \in Exposed' <=> h \in Exposed
                              /\ chain'[h] = chain[h]
                              /\ h \in Exposed => SameRecord(h)
  PROVE  Seen(h)' = Seen(h)
  BY SeenIs DEF Done, Pending, SameRecord

Req == [h \in Heads |-> Seen(h)]

\* Without requests the service is as after a reset.
LEMMA ResetMaps ==
  ASSUME outstanding' = {}
  PROVE  Service!Reset
  <1>1. \A h \in Heads : Seen(h)' = Service!Free
    BY SeenIs
  <1> QED BY <1>1 DEF Service!Reset

\* Post is Submit.
LEMMA PostMaps ==
  ASSUME IInv, NEW v \in Vcpus, SerialInv(v),
         NEW h \in Heads, NEW k \in Kinds, Post(h, k), Exposed' = Exposed
  PROVE  Service!Submit(h, k)
  <1>t. /\ chain \in [Slots -> Kind] /\ statusByte \in [Slots -> Status]
        /\ execs \in [Slots -> 0 .. MaxExecs] /\ h \in Slots
        /\ outstanding \subseteq Slots
    BY DeviceAssumption DEF IInv, TypeOK
  <1>u. /\ drv' = drv /\ drv = "run"
        /\ h \notin outstanding /\ outstanding' = outstanding \cup {h}
        /\ chain' = [chain EXCEPT ![h] = k]
        /\ statusByte' = [statusByte EXCEPT ![h] = "none"]
        /\ execs' = [execs EXCEPT ![h] = 0]
    BY DEF Post
  <1>c. Exposed \subseteq outstanding
    BY <1>u, ExposedCounted, PlacesOutstanding DEF SerialInv
  <1>1. Seen(h) = Service!Free
    BY <1>u, SeenIs
  <1>2. Seen(h)' = Service!Submitted(k)
    <2>1. Seen(h)' = Pending(h)'
      BY <1>u, <1>c, SeenIs
    <2>2. chain'[h] = k
      BY <1>t, <1>u
    <2>3. Pending(h)' = [state |-> "pending", kind |-> k, status |-> "none", calls |-> 0]
      BY <2>2 DEF Pending
    <2>4. Service!Submitted(k)
            = [state |-> "pending", kind |-> k, status |-> "none", calls |-> 0]
      BY DEF Service!Submitted
    <2> QED BY <2>1, <2>3, <2>4
  <1>3. \A g \in Heads : g # h => Seen(g)' = Seen(g)
    <2> TAKE g \in Heads
    <2>1. g \in outstanding /\ g # h => SameRecord(g)
      BY <1>t, <1>u DEF SameRecord
    <2>2. g \in outstanding /\ g # h => chain'[g] = chain[g]
      BY <2>1 DEF SameRecord
    <2> QED BY <1>u, <2>1, <2>2, SeenStays
  <1> QED BY <1>1, <1>2, <1>3 DEF Service!Submit

\* The write of the used index is Complete, of all the requests it exposes.
LEMMA IndexMaps ==
  ASSUME Exposed \subseteq Exposed', Exposed' \subseteq outstanding, outstanding \subseteq Heads,
         \A h \in Exposed' : Answered(h),
         UNCHANGED <<outstanding, chain, statusByte, execs>>
  PROVE  Service!Complete(Exposed' \ Exposed)
  <1> DEFINE some == Exposed' \ Exposed
             end == [h \in some |-> Done(h)]
  <1>1. some \subseteq Heads
    OBVIOUS
  <1>2. \A h \in some : Seen(h) = Pending(h) /\ Seen(h)' = Done(h)
    <2> TAKE h \in some
    <2>1. Seen(h)' = Done(h)'
      BY SeenIs
    <2>2. Done(h)' = Done(h)
      BY DEF Done
    <2> QED BY <2>1, <2>2, SeenIs
  <1>3. \A h \in Heads : h \notin some => Seen(h)' = Seen(h)
    BY SeenStays DEF SameRecord
  <1>4. \A h \in some : Pending(h).state = "pending" /\ Pending(h).kind = chain[h]
    BY DEF Pending
  <1>5. \A h \in some : Done(h) \in Service!Completed(chain[h])
    <2> TAKE h \in some
    <2>1. /\ statusByte[h] \in Service!Answers(chain[h])
          /\ Done(h) = [state |-> "done", kind |-> chain[h], status |-> statusByte[h],
                        calls |-> Service!Calls(chain[h])]
      BY DEF Done, Answered
    <2> QED BY <2>1 DEF Service!Completed
  <1> HIDE DEF Pending, Done, some
  <1>6. end \in [some -> UNION {Service!Completed(chain[h]) : h \in some}]
    BY <1>5
  <1>7. \A h \in some : Req[h].state = "pending" /\ Req[h].kind = chain[h]
    BY <1>1, <1>2, <1>4 DEF Req
  <1>8. Req' = [h \in Heads |-> IF h \in some THEN end[h] ELSE Req[h]]
    BY <1>1, <1>2, <1>3 DEF Req
  <1>9. UNION {Service!Completed(Req[h].kind) : h \in some}
          = UNION {Service!Completed(chain[h]) : h \in some}
    BY <1>7
  <1> HIDE DEF end
  <1>10. Service!Complete(some)
    BY <1>5, <1>6, <1>7, <1>8, <1>9 DEF Service!Complete, Req, end
  <1> QED BY <1>10 DEF some

\* What the driver sees is left alone by a step that exposes nothing and changes no
\* record the driver can see.
LEMMA QuietMaps ==
  ASSUME Exposed' = Exposed, UNCHANGED <<outstanding, chain>>,
         \A h \in Exposed : SameRecord(h)
  PROVE  UNCHANGED Req
  <1>1. \A h \in Heads : Seen(h)' = Seen(h)
    BY SeenStays
  <1> QED BY <1>1 DEF Req

\* The handler counts a request: the index the driver reads follows, or its write fails.
LEMMA CountMaps ==
  ASSUME IInv, NEW v \in Vcpus, Placed(v), NotAhead, Records(v), drv = "run",
         PublishUsedIdx \/ CountUnpublished, NEW h, Counted' = Counted \cup {h},
         h \in outstanding, Answered(h),
         UNCHANGED <<usedRing, lastUsed, outstanding, chain, statusByte, execs>>
  PROVE  [Service!Next]_Req
  <1>1. Exposed \subseteq Counted /\ Counted \subseteq outstanding /\ outstanding \subseteq Heads
    BY ExposedCounted, PlacesOutstanding DEF IInv, TypeOK
  <1>2. CASE PublishUsedIdx
    <2>1. Exposed' = Counted'
      BY <1>2 DEF PublishUsedIdx, Exposed, Counted
    <2>2. \A g \in Exposed' : Answered(g)
      BY <2>1 DEF Records
    <2>3. Service!Complete(Exposed' \ Exposed)
      BY <1>1, <2>1, <2>2, IndexMaps
    <2>4. Exposed' \ Exposed \in SUBSET Heads
      BY <1>1, <2>1
    <2> QED BY <2>3, <2>4 DEF Service!Next
  <1>3. CASE CountUnpublished
    <2>1. Exposed' = Exposed
      BY <1>3 DEF CountUnpublished, Exposed
    <2> QED BY <2>1, QuietMaps DEF SameRecord
  <1> QED BY <1>2, <1>3

\* The driver reaps what it has seen done.
LEMMA ReapMaps ==
  ASSUME IInv, FreshInv, NEW v \in Vcpus, SerialInv(v), Reap
  PROVE  \E h \in Heads : Service!Reap(h)
  <1>h. PICK h : h = usedRing[lastUsed % MaxQueueSize]
    OBVIOUS
  <1>1. /\ drv = "run" /\ Placed(v) /\ NotAhead
        /\ outstanding' = outstanding \ {h}
    BY <1>h, ReapStep DEF SerialInv
  <1>2. /\ lastUsed # usedIdx /\ lastUsed' = WrapInc(lastUsed)
        /\ UNCHANGED <<usedRing, usedIdx, chain, statusByte, execs>>
    BY DEF Reap, mem
  <1>3. Exposed = Exposed' \cup {h} /\ h \notin Exposed'
    <2>1. lastUsed \in Idx /\ usedIdx \in Idx /\ usedRing \in [Slots -> Slots]
      BY PlacesTyped DEF PlaceTypes
    <2>2. NoRepeat(usedRing, lastUsed, usedIdx)
      BY <1>1, ExposedCounted
    <2> QED BY <1>h, <1>2, <2>1, <2>2, WindowShrinks DEF Exposed
  <1>4. h \in outstanding /\ h \in Heads
    BY <1>1, <1>3, ExposedCounted, PlacesOutstanding DEF IInv, TypeOK
  <1>5. Seen(h) = Done(h) /\ Seen(h)' = Service!Free
    BY <1>1, <1>3, <1>4, SeenIs
  <1>6. \A g \in Heads : g # h => Seen(g)' = Seen(g)
    BY <1>1, <1>2, <1>3, SeenStays DEF SameRecord
  <1>7. Done(h).state = "done"
    BY DEF Done
  <1>8. Service!Reap(h)
    BY <1>4, <1>5, <1>6, <1>7 DEF Service!Reap
  <1> QED BY <1>4, <1>8

LEMMA HandlerQuiet ==
  ASSUME IInv, NEW v \in Vcpus, Placed(v), drv' = "run",
         Notify(v) \/ Handler(v) \/ ResetBegin(v), ~Publish(v), ~PublishError(v)
  PROVE  /\ UNCHANGED <<outstanding, chain>>
         /\ \A h \in Counted : SameRecord(h)
  <1>1. CASE Execute(v) \/ WriteStatus(v) \/ FailRequest(v)
    <2>1. UNCHANGED <<outstanding, chain>>
      BY <1>1 DEF Execute, WriteStatus, FailRequest, mem, driver
    <2> QED BY <1>1, <2>1, AnswersOwn
  <1>2. CASE ~(Execute(v) \/ WriteStatus(v) \/ FailRequest(v))
    <2>1. UNCHANGED <<outstanding, chain, statusByte, execs>>
      BY <1>2 DEF Notify, Handler, CheckReady, CloneQueue, ReadAvailIdx, ReadAvailEntry,
             ParseRequest, AddUsed, TriggerInterrupt, NothingDone, FinishLoop, AddUsedError,
             ErrorsDone, TriggerLast, ResetBegin, ResetRegisters, ResetQueues, mem, driver
    <2> QED BY <2>1 DEF SameRecord
  <1> QED BY <1>1, <1>2

LEMMA StepMaps ==
  ASSUME IInv, FreshInv, PublishesOwnElement, NEW v, Vcpus = {v}, SerialInv(v),
         SerialInv(v)', Records(v), [Next]_vars
  PROVE  [Service!Next]_Req
  <1>v. v \in Vcpus
    OBVIOUS
  <1>1. CASE outstanding' = {}
    BY <1>1, ResetMaps DEF Service!Next
  <1>2. CASE drv' # "run"
    BY <1>1, <1>2 DEF SerialInv, SetUpOK
  <1>3. CASE drv # "run" /\ drv' = "run"
    <2>1. outstanding' = {}
      BY <1>3, OnlyDriverOk DEF WriteDriverOk, SerialInv, SetUpOK
    <2> QED BY <1>1, <2>1
  <1>4. CASE drv = "run" /\ drv' = "run"
    <2>p. Placed(v) /\ NotAhead
      BY <1>4 DEF SerialInv
    <2>c. Exposed \subseteq Counted
      BY <1>v, <2>p, ExposedCounted
    <2>1. CASE Publish(v)
      <3>h. PICK h : h = thr[v].desc
        OBVIOUS
      <3>1. outstanding' = outstanding /\ lastUsed' = lastUsed /\ Counted' = Counted \cup {h}
        BY <2>1, <1>v, <3>h, PublishStep
      <3>2. /\ thr[v].pc = "publish" /\ UNCHANGED <<usedRing, chain, statusByte, execs>>
            /\ PublishUsedIdx \/ CountUnpublished
        BY <2>1 DEF Publish, At, driver
      <3>3. h \in outstanding /\ Answered(h)
        BY <1>4, <1>v, <2>p, <3>h, <3>2, PlacesOutstanding DEF Records
      <3> QED BY <1>4, <1>v, <2>p, <3>1, <3>2, <3>3, CountMaps
    <2>2. CASE PublishError(v)
      <3>h. PICK h : h = Head(thr[v].errs)
        OBVIOUS
      <3>1. /\ outstanding' = outstanding /\ lastUsed' = lastUsed
            /\ Counted' = Counted \cup {h} /\ thr[v].errs # <<>>
        BY <2>2, <1>v, <3>h, PublishErrorStep
      <3>2. /\ UNCHANGED <<usedRing, chain, statusByte, execs>>
            /\ PublishUsedIdx \/ CountUnpublished
        BY <2>2 DEF PublishError, driver
      <3>3. h \in ToSet(thr[v].errs)
        <4>1. thr[v].errs \in Seq(Slots)
          BY <1>v DEF IInv, TypeOK, Thread
        <4> QED BY <3>h, <3>1, <4>1, ErrsTail
      <3>4. h \in outstanding /\ Answered(h)
        BY <1>4, <1>v, <2>p, <3>3, PlacesOutstanding DEF Records
      <3> QED BY <1>4, <1>v, <2>p, <3>1, <3>2, <3>4, CountMaps
    <2>3. CASE Reap
      BY <2>3, <1>v, ReapMaps DEF Service!Next
    <2>4. CASE ~Publish(v) /\ ~PublishError(v) /\ ~Reap
      <3>e. Exposed' = Exposed
        BY <1>4, <2>4, ExposedStays
      <3>1. ASSUME NEW h \in Heads, NEW k \in Kinds, Post(h, k)
            PROVE  Service!Next
        BY <3>1, <3>e, <1>v, PostMaps DEF Service!Next
      <3>2. CASE Setup \/ AckInterrupt \/ ScanDone \/ UNCHANGED vars
        <4>1. UNCHANGED <<chain, statusByte, execs, outstanding>>
          BY <3>2 DEF Setup, InitRings, WriteQueueReady, WriteDriverOk, WriteRingAddr,
                 AckInterrupt, ScanDone, vars, mem, driver
        <4> QED BY <3>e, <4>1, QuietMaps DEF SameRecord
      <3>3. CASE Notify(v) \/ Handler(v) \/ ResetBegin(v)
        <4>1. UNCHANGED <<outstanding, chain>> /\ \A h \in Exposed : SameRecord(h)
          BY <1>4, <1>v, <2>p, <2>c, <2>4, <3>3, HandlerQuiet
        <4> QED BY <3>e, <4>1, QuietMaps
      <3>4. Setup \/ (\E h \in Heads, k \in Kinds : Post(h, k)) \/ AckInterrupt \/ Reap
            \/ ScanDone \/ UNCHANGED vars \/ Notify(v) \/ Handler(v) \/ ResetBegin(v)
        BY DEF Next
      <3> QED BY <2>4, <3>1, <3>2, <3>3, <3>4
    <2> QED BY <2>1, <2>2, <2>3, <2>4
  <1> QED BY <1>2, <1>3, <1>4

\* Entered by one vCPU at a time, the device is the block service for its driver: each
\* request is completed once, with a status and backend calls that fit it and that do
\* not change until the driver reaps it, whatever accesses to guest memory fail and
\* whenever the driver stops or resets the device (handle_queue_notify to
\* update_last_avail_idx).
THEOREM Implements ==
  ASSUME NEW v, Vcpus = {v}
  PROVE  Spec => ImplementsService
  <1> DEFINE Inv == /\ IInv /\ PublishesOwnElement
                    /\ FreshInv /\ SerialInv(v) /\ Records(v)
  <1>1. Init => Service!Init
    <2>1. Init => \A h \in Heads : Seen(h) = Service!Free
      BY DEF Init, Seen, Service!Free
    <2> QED BY <2>1 DEF Service!Init
  <1>2. Inv /\ Inv' /\ [Next]_vars => [Service!Next]_([h \in Heads |-> Seen(h)])
    BY StepMaps DEF Req
  <1>3. Spec => [](FreshInv /\ SerialInv(v))
    BY Serial
  <1>4. Spec => []Records(v)
    BY Recorded
  <1>5. Spec => []Inv
    BY <1>3, <1>4, Inductive, OwnElement, PTL
  <1> QED BY <1>1, <1>2, <1>5, PTL DEF Spec, ImplementsService, Service!Spec
=============================================================================
