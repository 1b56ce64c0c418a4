----------------------------- MODULE MmioAccess -----------------------------
(***************************************************************************)
(* The accesses by which the guest reaches the registers of MmioDevice and  *)
(* the configuration space: range and width checks                          *)
(* (src/axvirtio-common/src/mmio/transport.rs), the choice of the register   *)
(* (mmio_read and mmio_write of src/axvirtio-blk/src/mmio/device.rs,         *)
(* constants/mmio.rs) and read_config_space.  A read changes nothing, so it *)
(* is an operator on the state; a write is a step.                          *)
(*                                                                          *)
(* The value written to a register is taken from the values MmioDevice has  *)
(* for it.  A value in the configuration space is the sequence of its bytes, *)
(* the lowest first.                                                        *)
(***************************************************************************)
EXTENDS MmioDevice, Sequences

CONSTANTS
  BaseAddr,     \* base_ipa
  Length,       \* length
  AddrMod,      \* addresses wrap here; 2^64 in the code
  Touched,      \* the addresses the guest accesses
  Width,        \* the widths it accesses them with
  blockConfig   \* block_config, which nothing changes once the device is created

AccessWidth == {"Byte", "Word", "Dword", "Qword"}
Byte == 0 .. 255

Offset == [
  MAGIC_VALUE |-> 0, VERSION |-> 4, DEVICE_ID |-> 8, VENDOR_ID |-> 12,
  DEVICE_FEATURES |-> 16, DEVICE_FEATURES_SEL |-> 20,
  DRIVER_FEATURES |-> 32, DRIVER_FEATURES_SEL |-> 36,
  QUEUE_SEL |-> 48, QUEUE_NUM_MAX |-> 52, QUEUE_NUM |-> 56, QUEUE_READY |-> 68,
  QUEUE_NOTIFY |-> 80, INTERRUPT_STATUS |-> 96, INTERRUPT_ACK |-> 100, STATUS |-> 112,
  QUEUE_DESC_LOW |-> 128, QUEUE_DESC_HIGH |-> 132,
  QUEUE_AVAIL_LOW |-> 144, QUEUE_AVAIL_HIGH |-> 148,
  QUEUE_USED_LOW |-> 160, QUEUE_USED_HIGH |-> 164,
  CONFIG_GENERATION |-> 252, CONFIG |-> 256]

\* The fields of VirtioBlockConfig with the offset and the size its comments give them.
Layout == [
  capacity |-> [at |-> 0, size |-> 8], size_max |-> [at |-> 8, size |-> 4],
  seg_max |-> [at |-> 12, size |-> 4], cylinders |-> [at |-> 16, size |-> 2],
  heads |-> [at |-> 18, size |-> 1], sectors |-> [at |-> 19, size |-> 1],
  blk_size |-> [at |-> 20, size |-> 4], physical_block_exp |-> [at |-> 24, size |-> 1],
  alignment_offset |-> [at |-> 25, size |-> 1], min_io_size |-> [at |-> 26, size |-> 2],
  opt_io_size |-> [at |-> 28, size |-> 4]]

Field == DOMAIN Layout

ASSUME AccessAssumption ==
  /\ BaseAddr \in Nat /\ Length \in Nat /\ AddrMod \in Nat
  /\ BaseAddr + Length <= AddrMod /\ BaseAddr + Offset.CONFIG <= AddrMod
  /\ Touched \subseteq 0 .. AddrMod - 1 /\ Width \subseteq AccessWidth
  /\ DOMAIN blockConfig = Field
  /\ \A f \in Field : blockConfig[f] \in [1 .. Layout[f].size -> Byte]

VARIABLE powerUp   \* history: what the registers read when the device was created

----------------------------------------------------------------------------
(* transport.rs *)

\* What stands for an offset where there is none: the access has been refused for its
\* width, or a debug build has panicked.
Refused == AddrMod
Panic == AddrMod + 1

\* is_address_in_range: the subtraction saturates, so an address below the base is in
\* range.
InRange(a) == (IF a < BaseAddr THEN 0 ELSE a - BaseAddr) < Length

\* calculate_offset: below the base the subtraction overflows, which a release build
\* wraps.
Offsets(a) == IF a < BaseAddr THEN {a + AddrMod - BaseAddr, Panic} ELSE {a - BaseAddr}

\* The width is not looked at.
ValidateAnyWidth(a, w) == IF InRange(a) THEN Offsets(a) ELSE {0}

\* validate_read_access and validate_write_access: out of range is offset 0.
Validate(a, w) ==
  IF InRange(a)
  THEN {IF o < Offset.CONFIG /\ w # "Dword" THEN Refused ELSE o : o \in Offsets(a)}
  ELSE {0}

----------------------------------------------------------------------------
(* mmio_read *)

Zeros(n) == [k \in 1 .. n |-> 0]
AsU32(bytes) == bytes \o Zeros(4 - Len(bytes))

\* The two one-byte fields the other way round.
GeometrySwapped(c) == c.cylinders \o c.sectors \o c.heads
Geometry(c) == c.cylinders \o c.heads \o c.sectors

\* read_config_space: a field answers at its own offset only, whatever else there is in
\* the four bytes that are read.
ReadConfig(c, o) ==
  CASE o = 0 -> SubSeq(c.capacity, 1, 4)
    [] o = 4 -> SubSeq(c.capacity, 5, 8)
    [] o = 8 -> c.size_max
    [] o = 12 -> c.seg_max
    [] o = 16 -> Geometry(c)
    [] o = 20 -> c.blk_size
    [] o = 24 -> AsU32(c.physical_block_exp)
    [] o = 25 -> AsU32(c.alignment_offset)
    [] o = 26 -> AsU32(c.min_io_size)
    [] o = 28 -> c.opt_io_size
    [] OTHER -> Zeros(4)

Ok(v) == <<"ok", v>>
Err == <<"err">>

FeaturesWord(f, sel) == IF sel \in Half THEN f[sel] ELSE {}

ReadRegister(o) ==
  CASE o = Offset.MAGIC_VALUE         -> Ok("MMIO_MAGIC_VALUE")
    [] o = Offset.VERSION             -> Ok("MMIO_VERSION")
    [] o = Offset.DEVICE_ID           -> Ok("Block")
    [] o = Offset.VENDOR_ID           -> Ok("VIRTIO_VENDOR_ID")
    [] o = Offset.DEVICE_FEATURES     -> Ok(DeviceFeaturesWord)
    [] o = Offset.DEVICE_FEATURES_SEL -> Ok(devSel)
    [] o = Offset.DRIVER_FEATURES     -> Ok(FeaturesWord(features, drvSel))
    [] o = Offset.DRIVER_FEATURES_SEL -> Ok(drvSel)
    [] o = Offset.QUEUE_SEL           -> Ok(0)
    [] o = Offset.QUEUE_NUM_MAX       -> Ok(MaxQueueSize)
    [] o = Offset.QUEUE_NUM           -> Ok(queue.size)
    [] o = Offset.QUEUE_READY         -> Ok(IF queue.ready THEN 1 ELSE 0)
    [] o = Offset.INTERRUPT_STATUS    -> Ok(irq)
    [] o = Offset.STATUS              -> Ok(status)
    [] o = Offset.CONFIG_GENERATION   -> Ok(0)
    [] OTHER                          -> Err

\* An access that is refused reads as 0.
ReadAt(o, w) ==
  CASE o = Refused       -> Ok(0)
    [] o = Panic         -> <<"panic">>
    [] o < Offset.CONFIG -> ReadRegister(o)
    [] OTHER -> IF w = "Dword" THEN Ok(ReadConfig(blockConfig, o - Offset.CONFIG)) ELSE Err

MmioRead(a, w) == {ReadAt(o, w) : o \in Validate(a, w)}

----------------------------------------------------------------------------
(* mmio_write *)

Writable ==
  {Offset[reg] : reg \in
     {"DEVICE_FEATURES_SEL", "DRIVER_FEATURES", "DRIVER_FEATURES_SEL", "QUEUE_SEL",
      "QUEUE_NUM", "QUEUE_READY", "QUEUE_NOTIFY", "INTERRUPT_ACK", "STATUS",
      "QUEUE_DESC_LOW", "QUEUE_DESC_HIGH", "QUEUE_AVAIL_LOW", "QUEUE_AVAIL_HIGH",
      "QUEUE_USED_LOW", "QUEUE_USED_HIGH"}}

LowOffset  == [desc |-> Offset.QUEUE_DESC_LOW, avail |-> Offset.QUEUE_AVAIL_LOW,
               used |-> Offset.QUEUE_USED_LOW]
HighOffset == [desc |-> Offset.QUEUE_DESC_HIGH, avail |-> Offset.QUEUE_AVAIL_HIGH,
               used |-> Offset.QUEUE_USED_HIGH]

\* Any other queue than 0 does not exist: it cannot be selected, and a notification for
\* it is dropped.
OtherQueue == UNCHANGED regs

WriteRegister(o) ==
  \/ o = Offset.DEVICE_FEATURES_SEL /\ \E s \in Selectors : WriteDeviceFeaturesSel(s)
  \/ o = Offset.DRIVER_FEATURES_SEL /\ \E s \in Selectors : WriteDriverFeaturesSel(s)
  \/ o = Offset.DRIVER_FEATURES /\ \E word \in SUBSET Bits : WriteDriverFeatures(word)
  \/ o = Offset.STATUS /\ (Reset \/ \E flags \in StatusValues : WriteStatus(flags))
  \/ o = Offset.QUEUE_SEL /\ OtherQueue
  \/ o = Offset.QUEUE_NUM /\ \E n \in QueueNums : WriteQueueNum(n)
  \/ o = Offset.QUEUE_READY /\ \E b \in BOOLEAN : WriteQueueReady(b)
  \/ o = Offset.QUEUE_NOTIFY /\ (OtherQueue \/ \E i \in AvailIdxs : WriteQueueNotify(i))
  \/ o = Offset.INTERRUPT_ACK /\ \E bits \in AckValues : WriteInterruptAck(bits)
  \/ \E r \in RingName, word \in Word :
       \/ o = LowOffset[r] /\ WriteAddrLow(r, word)
       \/ o = HighOffset[r] /\ WriteAddrHigh(r, word)

\* The rest is InvalidRegister, refused without an error, or a panic.
NotARegister(o) == o \notin Writable /\ UNCHANGED regs

MmioWrite(a, w) ==
  /\ \E o \in Validate(a, w) : WriteRegister(o) \/ NotARegister(o)
  /\ UNCHANGED powerUp

----------------------------------------------------------------------------

DynamicRegisters ==
  {Offset[reg] : reg \in
     {"DEVICE_FEATURES", "DEVICE_FEATURES_SEL", "DRIVER_FEATURES", "DRIVER_FEATURES_SEL",
      "QUEUE_READY", "INTERRUPT_STATUS", "STATUS"}}

AccessInit ==
  /\ Init
  /\ powerUp = [o \in DynamicRegisters |-> ReadRegister(o)]

AccessNext == \E a \in Touched, w \in Width : MmioWrite(a, w)

AccessSpec == AccessInit /\ [][AccessNext]_<<regs, powerUp>>

----------------------------------------------------------------------------
(* Properties. *)

\* An access of 32 bits at the address of a writable register in the device's range.
Proper(a, w) ==
  /\ w = "Dword"
  /\ a >= BaseAddr /\ a < BaseAddr + Length
  /\ a - BaseAddr \in Writable

\* No other access comes out at a writable register: none of another width, none beyond
\* the end, and none below the base, where the subtraction wraps; and a read there finds
\* the register that a write changes (is_address_in_range, calculate_offset,
\* validate_read_access, validate_write_access).
NoStrayAccess ==
  \A a \in Touched, w \in Width :
    Validate(a, w) \cap Writable # {}
      => Proper(a, w) /\ MmioRead(a, w) = {ReadRegister(a - BaseAddr)}

\* So the registers change by a proper access only, whatever else the guest accesses
\* (mmio_write).
OnlyProperWrites ==
  [][\A a \in Touched, w \in Width : MmioWrite(a, w) /\ ~Proper(a, w) => UNCHANGED regs]_regs

\* After a reset the guest reads from every register that can change what it read when
\* the device was created, but for QUEUE_NUM: it finds nothing of the session before by
\* which it could tell, and what it configures next starts from there (reset_device,
\* mmio_read).
ResetReadsFresh ==
  [][Reset => \A o \in DynamicRegisters : ReadRegister(o)' = powerUp[o]]_regs

\* Read through the device's range, four bytes at offset o of the configuration space.
ConfigAt(o) == MmioRead(BaseAddr + Offset.CONFIG + o, "Dword")

\* The bytes of the fields where the comments of VirtioBlockConfig have them.
FieldAt(p) == CHOOSE f \in Field : p \in Layout[f].at .. Layout[f].at + Layout[f].size - 1
LayoutByte(p) == blockConfig[FieldAt(p)][p - Layout[FieldAt(p)].at + 1]
LayoutDword(o) == [k \in 1 .. 4 |-> LayoutByte(o + k - 1)]

\* Every field can be read: in the aligned dword that holds it, or by four bytes at its
\* own offset (read_config_space).
ConfigReadable ==
  \A f \in Field :
    \/ \A p \in Layout[f].at .. Layout[f].at + Layout[f].size - 1 :
         ConfigAt(4 * (p \div 4)) = {Ok(LayoutDword(4 * (p \div 4)))}
    \/ ConfigAt(Layout[f].at) = {Ok(AsU32(blockConfig[f]))}

\* The configuration space has the bytes that the comments of VirtioBlockConfig say.
ConfigLayout == \A o \in {4 * k : k \in 0 .. 7} : ConfigAt(o) = {Ok(LayoutDword(o))}
=============================================================================
