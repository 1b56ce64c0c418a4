-------------------------- MODULE MCBlkRefinement --------------------------
(* Values for the constants of BlkRefinement that a .cfg cannot write. *)
EXTENDS BlkRefinement

MCRingBase == [r \in RingName |-> [hi |-> 0, lo |-> 1]]
=============================================================================
