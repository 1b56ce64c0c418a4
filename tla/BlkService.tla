----------------------------- MODULE BlkService -----------------------------
(***************************************************************************)
(* What the block device promises its driver, without rings, locks or       *)
(* handlers: a request that is submitted is completed once, with a status   *)
(* that its kind allows, having called the backend exactly as often as its  *)
(* kind asks for; its outcome stays as it is until the driver reaps it; and *)
(* a reset gives up every request.                                          *)
(***************************************************************************)
EXTENDS Naturals

CONSTANTS
  Heads,   \* names for requests, used again once a request is reaped
  Kinds    \* the kinds of request the driver submits

VARIABLE req   \* the request under each name

Free == [state |-> "free", kind |-> "ok", status |-> "none", calls |-> 0]
Submitted(k) == [state |-> "pending", kind |-> k, status |-> "none", calls |-> 0]

\* What execute_block_request and the two writers of the status byte answer; a request
\* whose status byte cannot be written is never completed.
Answers(k) ==
  CASE k = "ok"       -> {"OK", "IOERR"}
    [] k = "unsupp"   -> {"UNSUPP"}
    [] k = "nodata"   -> {"IOERR"}
    [] k = "bad"      -> {"IOERR"}
    [] k = "nostatus" -> {"none"}
    [] k = "unmapped" -> {}

Calls(k) == IF k = "ok" THEN 1 ELSE 0

Init == req = [h \in Heads |-> Free]

Submit(h, k) ==
  /\ req[h] = Free
  /\ req' = [req EXCEPT ![h] = Submitted(k)]

Completed(k) == {[state |-> "done", kind |-> k, status |-> s, calls |-> Calls(k)] :
                   s \in Answers(k)}

\* Several requests at once, if the device has failed to tell of the first ones before.
Complete(some) ==
  /\ \A h \in some : req[h].state = "pending"
  /\ \E end \in [some -> UNION {Completed(req[h].kind) : h \in some}] :
       /\ \A h \in some : end[h] \in Completed(req[h].kind)
       /\ req' = [h \in Heads |-> IF h \in some THEN end[h] ELSE req[h]]

Reap(h) ==
  /\ req[h].state = "done"
  /\ req' = [req EXCEPT ![h] = Free]

Reset == req' = [h \in Heads |-> Free]

Next ==
  \/ \E h \in Heads, k \in Kinds : Submit(h, k)
  \/ \E some \in SUBSET Heads : Complete(some)
  \/ \E h \in Heads : Reap(h)
  \/ Reset

Spec == Init /\ [][Next]_req

\* Every submitted request is completed, unless a reset comes first.
FairSpec == Spec /\ \A h \in Heads : WF_req(Complete({h})) /\ WF_req(Reap(h))
=============================================================================
