---------------------------- MODULE MCMmioAccess ----------------------------
(* Values for the constants of MmioAccess that a .cfg cannot write. *)
EXTENDS MmioAccess

\* One bit, offered in half 0 and not in half 1.
MCOffered == [h \in Half |-> IF h = 0 THEN {"f"} ELSE {}]

MCStatusValues == {{"DRIVER", "FEATURES_OK", "DRIVER_OK"}}

MCAckValues == {{"vring"}}

MCBase == 300
MCLength == 512

\* Every register that can be written, two that cannot, an offset without one, two of the
\* configuration space, and addresses on both sides of the device.
MCReadOnly == {"VERSION", "DEVICE_ID", "VENDOR_ID", "DEVICE_FEATURES", "QUEUE_NUM_MAX",
               "CONFIG_GENERATION"}

MCTouched ==
  {MCBase + Offset[reg] : reg \in DOMAIN Offset \ MCReadOnly}
    \cup {MCBase + o : o \in {24, 282}} \cup {0, MCBase - 1, MCBase + MCLength}

\* Every byte another number.
MCConfig == [f \in Field |-> [k \in 1 .. Layout[f].size |-> Layout[f].at + k]]
=============================================================================
