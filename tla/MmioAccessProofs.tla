-------------------------- MODULE MmioAccessProofs --------------------------
(* Theorems about MmioAccess, for every base, range and set of addresses.  *)
EXTENDS MmioAccess, MmioDeviceProofs, SequenceTheorems

\* Every offset that names a register the guest can write lies below the configuration
\* space and is not 0, where an access out of range comes out.
LEMMA WritableBelowConfig ==
  \A o \in Writable : o \in Nat /\ o # 0 /\ o < Offset.CONFIG
BY SMTT(60) DEF Writable, Offset

\* A step of a register handler is a step at the offset of a writable register.
LEMMA HandlersAtRegisters ==
  ASSUME NEW o, WriteRegister(o)
  PROVE  o \in Writable
<1>1. CASE \E r \in RingName : o = LowOffset[r] \/ o = HighOffset[r]
  <2>1. PICK r \in RingName : o = LowOffset[r] \/ o = HighOffset[r]
    BY <1>1
  <2>2. r \in {"desc", "avail", "used"}
    BY DEF RingName
  <2>3. o \in {Offset.QUEUE_DESC_LOW, Offset.QUEUE_DESC_HIGH, Offset.QUEUE_AVAIL_LOW,
               Offset.QUEUE_AVAIL_HIGH, Offset.QUEUE_USED_LOW, Offset.QUEUE_USED_HIGH}
    BY <2>1, <2>2 DEF LowOffset, HighOffset
  <2> QED
    BY <2>3 DEF Writable
<1>2. CASE o \in {Offset.DEVICE_FEATURES_SEL, Offset.DRIVER_FEATURES_SEL,
                  Offset.DRIVER_FEATURES, Offset.STATUS, Offset.QUEUE_SEL,
                  Offset.QUEUE_NUM, Offset.QUEUE_READY, Offset.QUEUE_NOTIFY,
                  Offset.INTERRUPT_ACK}
  BY <1>2 DEF Writable
<1> QED
  BY <1>1, <1>2 DEF WriteRegister

\* Where the offset that is computed for an access is that of a writable register, the
\* access is a proper one.
LEMMA WritableIsProper ==
  ASSUME NEW a \in Touched, NEW w \in Width, NEW o \in Validate(a, w), o \in Writable
  PROVE  Proper(a, w)
<1>1. /\ a \in Nat /\ a < AddrMod
      /\ BaseAddr \in Nat /\ Length \in Nat /\ AddrMod \in Nat
      /\ BaseAddr + 256 <= AddrMod
  BY AccessAssumption DEF Offset
<1>2. o \in Nat /\ o # 0 /\ o < 256
  BY WritableBelowConfig DEF Offset
<1>3. InRange(a)
  BY <1>2 DEF Validate
<1>4. PICK p \in Offsets(a) : o = IF p < 256 /\ w # "Dword" THEN AddrMod ELSE p
  BY <1>3 DEF Validate, Offset, Refused
<1>5. a >= BaseAddr
  <2> SUFFICES ASSUME a < BaseAddr PROVE FALSE
    BY <1>1
  <2>1. p = a + AddrMod - BaseAddr \/ p = AddrMod + 1
    BY <1>4 DEF Offsets, Panic
  <2> QED
    BY <2>1, <1>1, <1>2, <1>4
<1>6. p = a - BaseAddr
  BY <1>1, <1>4, <1>5 DEF Offsets
<1>7. w = "Dword" /\ o = a - BaseAddr
  BY <1>1, <1>2, <1>4, <1>6
<1>8. a < BaseAddr + Length
  BY <1>1, <1>3, <1>5 DEF InRange
<1> QED
  BY <1>5, <1>7, <1>8 DEF Proper

LEMMA ProperReads ==
  ASSUME NEW a \in Touched, NEW w \in Width, Proper(a, w)
  PROVE  MmioRead(a, w) = {ReadRegister(a - BaseAddr)}
<1>1. /\ a \in Nat /\ BaseAddr \in Nat /\ Length \in Nat /\ AddrMod \in Nat
      /\ BaseAddr + 256 <= AddrMod
  BY AccessAssumption DEF Offset
<1> DEFINE o == a - BaseAddr
<1>2. w = "Dword" /\ a >= BaseAddr /\ a < BaseAddr + Length /\ o \in Writable
  BY DEF Proper
<1>3. o \in Nat /\ o < 256 /\ Offset.CONFIG = 256
  BY <1>2, WritableBelowConfig DEF Offset
<1>4. InRange(a) /\ Offsets(a) = {o}
  BY <1>1, <1>2 DEF InRange, Offsets
<1>5. o # Refused /\ o # Panic /\ o < Offset.CONFIG
  BY <1>1, <1>3 DEF Refused, Panic
<1> HIDE DEF o
<1>6. Validate(a, w) = {o}
  BY <1>2, <1>4 DEF Validate
<1>7. ReadAt(o, w) = ReadRegister(o)
  BY <1>5 DEF ReadAt
<1> QED
  BY <1>6, <1>7 DEF MmioRead, o

\* No access but a proper one comes out at a writable register, wherever the device lies
\* and whatever is accessed, and a read there finds that register (calculate_offset,
\* validate_read_access, validate_write_access).
THEOREM NoneStrays == AccessSpec => []NoStrayAccess
<1>1. NoStrayAccess
  <2> SUFFICES ASSUME NEW a \in Touched, NEW w \in Width, Validate(a, w) \cap Writable # {}
               PROVE  Proper(a, w) /\ MmioRead(a, w) = {ReadRegister(a - BaseAddr)}
    BY DEF NoStrayAccess
  <2> QED
    BY WritableIsProper, ProperReads
<1> QED
  BY <1>1, PTL

\* The registers change only by an access of 32 bits to a writable register in the
\* device's range, wherever the device lies and whatever else is accessed
\* (validate_write_access, calculate_offset, mmio_write).
THEOREM ProperWrites == AccessSpec => OnlyProperWrites
<1>1. ASSUME NEW a \in Touched, NEW w \in Width, MmioWrite(a, w), ~Proper(a, w)
      PROVE  UNCHANGED regs
  <2>1. PICK o \in Validate(a, w) : WriteRegister(o) \/ NotARegister(o)
    BY <1>1 DEF MmioWrite
  <2>2. o \notin Writable
    BY <1>1, WritableIsProper
  <2> QED
    BY <2>1, <2>2, HandlersAtRegisters DEF NotARegister
<1>2. [\A a \in Touched, w \in Width :
         MmioWrite(a, w) /\ ~Proper(a, w) => UNCHANGED regs]_regs
  BY <1>1
<1> QED
  BY <1>2, PTL DEF OnlyProperWrites

\* An access is a step of the registers' specification, or leaves them alone.
LEMMA AccessIsStep == [AccessNext]_<<regs, powerUp>> => [Next]_regs
<1> SUFFICES ASSUME [AccessNext]_<<regs, powerUp>> PROVE [Next]_regs
  OBVIOUS
<1>1. CASE UNCHANGED <<regs, powerUp>>
  BY <1>1
<1>2. CASE AccessNext
  <2>1. PICK o : WriteRegister(o) \/ NotARegister(o)
    BY <1>2 DEF AccessNext, MmioWrite
  <2>2. CASE WriteRegister(o)
    BY <2>2 DEF WriteRegister, OtherQueue, Next
  <2> QED
    BY <2>1, <2>2 DEF NotARegister
<1> QED
  BY <1>1, <1>2

\* Reached through addresses, offsets and widths, the registers do what MmioDevice says
\* and nothing else.
THEOREM AccessesImplementRegisters == AccessSpec => Spec
<1>1. AccessInit => Init
  BY DEF AccessInit
<1> QED
  BY <1>1, AccessIsStep, PTL DEF AccessSpec, Spec

----------------------------------------------------------------------------
(* What is read after a reset. *)

\* What the registers that can change read when the device is created.
Fresh(o) ==
  IF o = Offset.DEVICE_FEATURES THEN Ok(Offered[0])
  ELSE IF o \in {Offset.DEVICE_FEATURES_SEL, Offset.DRIVER_FEATURES_SEL, Offset.QUEUE_READY}
       THEN Ok(0)
       ELSE Ok({})

\* The state of a device just created or just reset, up to the queue's size.
Clean ==
  /\ status = {} /\ features = NoFeatures
  /\ devSel = 0 /\ drvSel = 0 /\ irq = {}
  /\ queue.ready = FALSE

ReadsFresh == \A o \in DynamicRegisters : ReadRegister(o) = Fresh(o)

LEMMA CleanReadsFresh == Clean => ReadsFresh
<1> SUFFICES ASSUME Clean, NEW o \in DynamicRegisters PROVE ReadRegister(o) = Fresh(o)
  BY DEF ReadsFresh
<1>1. FeaturesWord(features, drvSel) = {} /\ DeviceFeaturesWord = Offered[0]
  BY DEF Clean, FeaturesWord, DeviceFeaturesWord, NoFeatures, Half
<1>2. devSel = 0 /\ drvSel = 0 /\ irq = {} /\ status = {} /\ queue.ready = FALSE
  BY DEF Clean
<1>3. o \in {16, 20, 32, 36, 68, 96, 112}
  BY DEF DynamicRegisters, Offset
<1>4. CASE o = 16
  BY <1>4, <1>1 DEF ReadRegister, Fresh, Offset
<1>5. CASE o = 20
  BY <1>5, <1>2 DEF ReadRegister, Fresh, Offset
<1>6. CASE o = 32
  BY <1>6, <1>1 DEF ReadRegister, Fresh, Offset
<1>7. CASE o = 36
  BY <1>7, <1>2 DEF ReadRegister, Fresh, Offset
<1>8. CASE o = 68
  BY <1>8, <1>2 DEF ReadRegister, Fresh, Offset
<1>9. CASE o = 96
  BY <1>9, <1>2 DEF ReadRegister, Fresh, Offset
<1>10. CASE o = 112
  BY <1>10, <1>2 DEF ReadRegister, Fresh, Offset
<1> QED
  BY <1>3, <1>4, <1>5, <1>6, <1>7, <1>8, <1>9, <1>10

\* The registers as they were read when the device was created.
PowerUp == powerUp = [o \in DynamicRegisters |-> Fresh(o)]

LEMMA PowerUpKept == AccessSpec => []PowerUp
<1>1. AccessInit => PowerUp
  <2> SUFFICES ASSUME AccessInit PROVE PowerUp
    OBVIOUS
  <2>1. Clean
    BY DEF AccessInit, Init, NewQueue, Clean
  <2> QED
    BY <2>1, CleanReadsFresh DEF ReadsFresh, AccessInit, PowerUp
<1>2. PowerUp /\ [AccessNext]_<<regs, powerUp>> => PowerUp'
  BY DEF PowerUp, AccessNext, MmioWrite
<1> QED
  BY <1>1, <1>2, PTL DEF AccessSpec

\* Whatever the guest wrote before, a reset leaves every register that can change but
\* QUEUE_NUM reading what it read when the device was created (reset_device, mmio_read).
THEOREM ResetsReadFresh == AccessSpec => ResetReadsFresh
<1>1. Reset => Clean'
  BY DEF Reset, Clean, ResetQueue, NewQueue
<1>2. Clean' => ReadsFresh'
  BY CleanReadsFresh, PTL
<1>3. PowerUp =>
        [Reset => \A o \in DynamicRegisters : ReadRegister(o)' = powerUp[o]]_regs
  <2> SUFFICES ASSUME PowerUp, Reset, NEW o \in DynamicRegisters
               PROVE  ReadRegister(o)' = powerUp[o]
    OBVIOUS
  <2>1. ReadRegister(o)' = Fresh(o)
    BY <1>1, <1>2 DEF ReadsFresh
  <2> QED
    BY <2>1 DEF PowerUp
<1> QED
  BY <1>3, PowerUpKept, PTL DEF ResetReadsFresh

----------------------------------------------------------------------------
(* What is read from the configuration space. *)

LEMMA Fields ==
  /\ Field = {"capacity", "size_max", "seg_max", "cylinders", "heads", "sectors", "blk_size",
              "physical_block_exp", "alignment_offset", "min_io_size", "opt_io_size"}
  /\ Layout["capacity"].at = 0 /\ Layout["capacity"].size = 8
  /\ Layout["size_max"].at = 8 /\ Layout["size_max"].size = 4
  /\ Layout["seg_max"].at = 12 /\ Layout["seg_max"].size = 4
  /\ Layout["cylinders"].at = 16 /\ Layout["cylinders"].size = 2
  /\ Layout["heads"].at = 18 /\ Layout["heads"].size = 1
  /\ Layout["sectors"].at = 19 /\ Layout["sectors"].size = 1
  /\ Layout["blk_size"].at = 20 /\ Layout["blk_size"].size = 4
  /\ Layout["physical_block_exp"].at = 24 /\ Layout["physical_block_exp"].size = 1
  /\ Layout["alignment_offset"].at = 25 /\ Layout["alignment_offset"].size = 1
  /\ Layout["min_io_size"].at = 26 /\ Layout["min_io_size"].size = 2
  /\ Layout["opt_io_size"].at = 28 /\ Layout["opt_io_size"].size = 4
BY DEF Field, Layout

\* No byte belongs to two fields.
LEMMA FieldsApart ==
  ASSUME NEW f \in Field, NEW p \in Layout[f].at .. Layout[f].at + Layout[f].size - 1
  PROVE  FieldAt(p) = f
<1>1. ASSUME NEW g \in Field, p \in Layout[g].at .. Layout[g].at + Layout[g].size - 1
      PROVE  g = f
  BY <1>1, Fields
<1>2. PICK g : g = FieldAt(p)
  OBVIOUS
<1>3. g \in Field /\ p \in Layout[g].at .. Layout[g].at + Layout[g].size - 1
  BY <1>2 DEF FieldAt
<1> QED
  BY <1>1, <1>2, <1>3

\* A byte of a field where the comments have it.
LEMMA ByteOfField ==
  ASSUME NEW f \in Field, NEW p \in Layout[f].at .. Layout[f].at + Layout[f].size - 1
  PROVE  LayoutByte(p) = blockConfig[f][p - Layout[f].at + 1]
BY FieldsApart DEF LayoutByte

LEMMA BytesAsSeq ==
  \A n \in Nat : \A s \in [1 .. n -> Byte] : s \in Seq(Byte) /\ Len(s) = n
<1> TAKE n \in Nat
<1> TAKE s \in [1 .. n -> Byte]
<1>1. s \in Seq(Byte)
  BY SeqDef
<1>2. Len(s) \in Nat /\ 1 .. Len(s) = 1 .. n
  BY <1>1, LenProperties
<1>3. Len(s) = n
  BY <1>2
<1> QED
  BY <1>1, <1>3

\* A range that covers the configuration space covers every offset in it.
LEMMA ConfigAccess ==
  ASSUME Length >= Offset.CONFIG + 32, NEW o \in 0 .. 28
  PROVE  ConfigAt(o) = {Ok(ReadConfig(blockConfig, o))}
<1> DEFINE a == BaseAddr + Offset.CONFIG + o
<1>1. /\ BaseAddr \in Nat /\ Length \in Nat /\ AddrMod \in Nat /\ Offset.CONFIG = 256
      /\ BaseAddr + Length <= AddrMod
  BY AccessAssumption DEF Offset
<1>2. a >= BaseAddr /\ a - BaseAddr = 256 + o /\ 256 + o < Length /\ 256 + o < AddrMod
  BY <1>1
<1>3. InRange(a) /\ Offsets(a) = {256 + o}
  BY <1>1, <1>2 DEF InRange, Offsets
<1>4. Validate(a, "Dword") = {256 + o}
  BY <1>1, <1>3 DEF Validate
<1>5. ReadAt(256 + o, "Dword") = Ok(ReadConfig(blockConfig, o))
  <2> DEFINE x == 256 + o
  <2>1. x # Refused /\ x # Panic /\ ~(x < Offset.CONFIG) /\ x - Offset.CONFIG = o
    BY <1>1, <1>2 DEF Refused, Panic
  <2> HIDE DEF x
  <2>2. ReadAt(x, "Dword") = Ok(ReadConfig(blockConfig, x - Offset.CONFIG))
    BY <2>1 DEF ReadAt
  <2> QED
    BY <2>1, <2>2 DEF x
<1> QED
  BY <1>4, <1>5 DEF ConfigAt, MmioRead

\* The dwords that hold a field of their own, or the three of the geometry.
LEMMA DwordsRead ==
  ASSUME NEW o \in {0, 4, 8, 12, 16, 20, 28}
  PROVE  ReadConfig(blockConfig, o) = LayoutDword(o)
<1>1. \A f \in Field : blockConfig[f] \in [1 .. Layout[f].size -> Byte]
  BY AccessAssumption
<1>2. ASSUME NEW f \in Field, NEW n \in Nat, Layout[f].size = 4, Layout[f].at = n
      PROVE  LayoutDword(n) = blockConfig[f]
  <2>1. blockConfig[f] \in [1 .. 4 -> Byte]
    BY <1>1, <1>2
  <2>2. ASSUME NEW k \in 1 .. 4 PROVE LayoutByte(n + k - 1) = blockConfig[f][k]
    <3>1. PICK p : p = n + k - 1
      OBVIOUS
    <3>2. p \in Layout[f].at .. Layout[f].at + Layout[f].size - 1
      BY <3>1, <1>2
    <3>3. p - Layout[f].at + 1 = k
      BY <3>1, <1>2
    <3>4. LayoutByte(p) = blockConfig[f][p - Layout[f].at + 1]
      BY <3>2, ByteOfField
    <3> QED
      BY <3>1, <3>3, <3>4
  <2> QED
    BY <2>1, <2>2 DEF LayoutDword
<1>3. CASE o \in {8, 12, 20, 28}
  <2>1. PICK f \in {"size_max", "seg_max", "blk_size", "opt_io_size"} :
          f \in Field /\ Layout[f].at = o /\ Layout[f].size = 4
    BY <1>3, Fields
  <2>2. LayoutDword(o) = blockConfig[f]
    BY <1>2, <1>3, <2>1
  <2>3. ReadConfig(blockConfig, o) = blockConfig[f]
    <3>1. CASE f = "size_max"
      BY <3>1, <2>1, Fields DEF ReadConfig
    <3>2. CASE f = "seg_max"
      BY <3>2, <2>1, Fields DEF ReadConfig
    <3>3. CASE f = "blk_size"
      BY <3>3, <2>1, Fields DEF ReadConfig
    <3>4. CASE f = "opt_io_size"
      BY <3>4, <2>1, Fields DEF ReadConfig
    <3> QED
      BY <3>1, <3>2, <3>3, <3>4
  <2> QED
    BY <2>2, <2>3
<1>4. CASE o \in {0, 4}
  <2> DEFINE s == blockConfig["capacity"]
  <2>1. "capacity" \in Field /\ Layout["capacity"].at = 0 /\ Layout["capacity"].size = 8
    BY Fields
  <2>2. s \in [1 .. 8 -> Byte]
    BY <1>1, <2>1
  <2>3. s \in Seq(Byte) /\ Len(s) = 8
    <3>1. 8 \in Nat
      OBVIOUS
    <3> QED
      BY <2>2, <3>1, BytesAsSeq
  <2>4. \A k \in 1 .. 4 : LayoutByte(o + k - 1) = s[o + k]
    <3> TAKE k \in 1 .. 4
    <3>1. o + k - 1 \in Layout["capacity"].at .. Layout["capacity"].at + Layout["capacity"].size - 1
      BY <1>4, <2>1
    <3>2. o + k - 1 - Layout["capacity"].at + 1 = o + k
      BY <1>4, <2>1
    <3> QED
      BY <2>1, <3>1, <3>2, ByteOfField
  <2>5. ReadConfig(blockConfig, o) = SubSeq(s, o + 1, o + 4)
    <3>1. CASE o = 0
      BY <3>1 DEF ReadConfig
    <3>2. CASE o = 4
      BY <3>2 DEF ReadConfig
    <3> QED
      BY <1>4, <3>1, <3>2
  <2>6. SubSeq(s, o + 1, o + 4) = [k \in 1 .. 4 |-> s[o + k]]
    <3> HIDE DEF s
    <3> QED
      BY <1>4, <2>3
  <2> QED
    BY <2>4, <2>5, <2>6 DEF LayoutDword
<1>5. CASE o = 16
  <2> DEFINE c == blockConfig["cylinders"]  h == blockConfig["heads"]  t == blockConfig["sectors"]
  <2>1. c \in [1 .. 2 -> Byte] /\ h \in [1 .. 1 -> Byte] /\ t \in [1 .. 1 -> Byte]
    BY <1>1, Fields
  <2>2. /\ c \in Seq(Byte) /\ Len(c) = 2 /\ h \in Seq(Byte) /\ Len(h) = 1
        /\ t \in Seq(Byte) /\ Len(t) = 1
    <3>1. 1 \in Nat /\ 2 \in Nat
      OBVIOUS
    <3> HIDE DEF c, h, t
    <3> QED
      BY <2>1, <3>1, BytesAsSeq
  <2>3. /\ LayoutByte(16) = c[1] /\ LayoutByte(17) = c[2]
        /\ LayoutByte(18) = h[1] /\ LayoutByte(19) = t[1]
    BY Fields, ByteOfField
  <2>4. ReadConfig(blockConfig, o) = c \o h \o t
    <3>1. ReadConfig(blockConfig, o) = Geometry(blockConfig)
      BY <1>5 DEF ReadConfig
    <3> QED
      BY <3>1 DEF Geometry
  <2>5. c \o h \o t = [k \in 1 .. 4 |-> IF k = 1 THEN c[1] ELSE IF k = 2 THEN c[2]
                                       ELSE IF k = 3 THEN h[1] ELSE t[1]]
    <3> HIDE DEF c, h, t
    <3> DEFINE u == c \o h
    <3>1. u \in Seq(Byte) /\ Len(u) = 3 /\ u[1] = c[1] /\ u[2] = c[2] /\ u[3] = h[1]
      BY <2>2, ConcatProperties
    <3> HIDE DEF u
    <3> DEFINE v == u \o t
    <3>2. /\ v \in Seq(Byte) /\ Len(v) = Len(u) + Len(t)
          /\ \A i \in 1 .. Len(u) + Len(t) : v[i] = IF i <= Len(u) THEN u[i] ELSE t[i - Len(u)]
      BY <2>2, <3>1, ConcatProperties
    <3> HIDE DEF v
    <3>3. v[1] = u[1] /\ v[2] = u[2] /\ v[3] = u[3] /\ v[4] = t[1] /\ Len(v) = 4
      BY <2>2, <3>1, <3>2
    <3>4. v \in [1 .. 4 -> Byte]
      BY <3>2, <3>3, LenProperties
    <3>5. v = [k \in 1 .. 4 |-> IF k = 1 THEN c[1] ELSE IF k = 2 THEN c[2]
                             ELSE IF k = 3 THEN h[1] ELSE t[1]]
      BY <3>1, <3>3, <3>4
    <3> QED
      BY <3>5 DEF u, v
  <2>6. LayoutDword(16) = [k \in 1 .. 4 |-> IF k = 1 THEN c[1] ELSE IF k = 2 THEN c[2]
                                       ELSE IF k = 3 THEN h[1] ELSE t[1]]
    BY <2>3 DEF LayoutDword
  <2> QED
    BY <1>5, <2>4, <2>5, <2>6
<1> QED
  BY <1>3, <1>4, <1>5

\* Where the range covers the configuration space, every field of the device's
\* configuration can be read, with the bytes the configuration was created with, whatever
\* they are (read_config_space).
THEOREM FieldsReadable ==
  ASSUME Length >= Offset.CONFIG + 32
  PROVE  AccessSpec => []ConfigReadable
<1>1. ASSUME NEW f \in {"capacity", "size_max", "seg_max", "cylinders", "heads", "sectors",
                        "blk_size", "opt_io_size"},
             NEW p \in Layout[f].at .. Layout[f].at + Layout[f].size - 1
      PROVE  ConfigAt(4 * (p \div 4)) = {Ok(LayoutDword(4 * (p \div 4)))}
  <2>1. p \in 0 .. 23 \/ p \in 28 .. 31
    BY Fields
  <2>2. 4 * (p \div 4) \in {0, 4, 8, 12, 16, 20, 28}
    BY <2>1
  <2> QED
    BY <2>2, ConfigAccess, DwordsRead
<1>2. ASSUME NEW f \in {"physical_block_exp", "alignment_offset", "min_io_size"}
      PROVE  ConfigAt(Layout[f].at) = {Ok(AsU32(blockConfig[f]))}
  <2>1. Layout[f].at \in 0 .. 28
    BY Fields
  <2>2. ReadConfig(blockConfig, Layout[f].at) = AsU32(blockConfig[f])
    <3>1. CASE f = "physical_block_exp"
      BY <3>1, Fields DEF ReadConfig
    <3>2. CASE f = "alignment_offset"
      BY <3>2, Fields DEF ReadConfig
    <3>3. CASE f = "min_io_size"
      BY <3>3, Fields DEF ReadConfig
    <3> QED
      BY <3>1, <3>2, <3>3
  <2> QED
    BY <2>1, <2>2, ConfigAccess
<1>3. ConfigReadable
  BY <1>1, <1>2, Fields DEF ConfigReadable
<1> QED
  BY <1>3, PTL
=============================================================================
