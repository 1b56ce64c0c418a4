---------------------------- MODULE MCBlkDevice ----------------------------
(* Values for the constants of BlkDevice that a .cfg cannot write. *)
EXTENDS BlkDevice

MCRingBase == [r \in RingName |-> [hi |-> 0, lo |-> 1]]
=============================================================================
