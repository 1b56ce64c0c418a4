--------------------------- MODULE BlkRefinement ---------------------------
(***************************************************************************)
(* The request path of the device, entered by one vCPU at a time, implements *)
(* the block service.  A request is done from the write of the used index   *)
(* that exposes it; its status byte and the count of its backend calls      *)
(* become visible to the driver with it and may not change after.           *)
(***************************************************************************)
EXTENDS BlkDevice

\* The requests between the index up to which the driver has reaped and the used index.
Exposed == RingWindow(usedRing, lastUsed, usedIdx)

Seen(h) ==
  CASE h \notin outstanding ->
         [state |-> "free", kind |-> "ok", status |-> "none", calls |-> 0]
    [] h \in outstanding \cap Exposed ->
         [state |-> "done", kind |-> chain[h], status |-> statusByte[h], calls |-> execs[h]]
    [] h \in outstanding \ Exposed ->
         [state |-> "pending", kind |-> chain[h], status |-> "none", calls |-> 0]

Service == INSTANCE BlkService WITH req <- [h \in Heads |-> Seen(h)]

\* Whatever the handler, the driver and resets do and whichever accesses to guest memory
\* fail, the driver sees the service: one completion for one request, with a status and
\* backend calls that fit it and do not change under the driver's eyes
\* (handle_queue_notify to update_last_avail_idx).
ImplementsService == Service!Spec

\* And it sees every request answered, if no access fails, the vCPUs run and the driver
\* notifies and serves interrupts.
ImplementsFairService == Service!FairSpec
=============================================================================
