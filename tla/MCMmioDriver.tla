---------------------------- MODULE MCMmioDriver ----------------------------
(* Values for the constants of MmioDriver that a .cfg cannot write. *)
EXTENDS MmioDriver

\* "f" is offered in half 0, "g" in half 1; the driver could use one more of each.
MCOffered == [h \in Half |-> IF h = 0 THEN {"f"} ELSE {"g"}]
MCWanted  == [h \in Half |-> {"f", "g"}]

\* Addresses with one half that is not zero: below 4 GiB, or a multiple of 4 GiB.
MCAddrs == {[hi |-> 0, lo |-> 1], [hi |-> 0, lo |-> 2], [hi |-> 1, lo |-> 0]}

\* An address with both.
MCWideAddrs == {[hi |-> 1, lo |-> 1]}
=============================================================================
