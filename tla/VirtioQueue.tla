---------------------------- MODULE VirtioQueue ----------------------------
(***************************************************************************)
(* The queue object of axvirtio-common (src/axvirtio-common/src/queue): one *)
(* operator per method of VirtioQueue, AvailableRing and UsedRing that      *)
(* reads or changes the device's own state.  Guest memory is not here: the  *)
(* modules that use these operators say what is read from it and written    *)
(* to it.                                                                   *)
(*                                                                          *)
(* A 64-bit guest address is a pair of 32-bit words, of which Word is the   *)
(* set of values that occur.  The three rings differ only in the register   *)
(* that sets them, so the fields of the struct are functions of the ring.   *)
(***************************************************************************)
EXTENDS Naturals

CONSTANTS
  Word,          \* the 32-bit words that occur as halves of an address
  MaxQueueSize,  \* DEFAULT_QUEUE_SIZE, 256 in the code
  IdxMod         \* 2^16: the free-running ring indices are u16 and wrap

ASSUME WordAssumption == Word \subseteq Nat /\ 0 \in Word

\* Queue sizes are powers of two no larger than 2^15, so they divide 2^16.
ASSUME SizeAssumption ==
  /\ MaxQueueSize \in Nat \ {0} /\ IdxMod \in Nat
  /\ MaxQueueSize < IdxMod /\ IdxMod % MaxQueueSize = 0

----------------------------------------------------------------------------
(* Addresses, rings and queues. *)

Addr == [hi : Word, lo : Word]
NullAddr == [hi |-> 0, lo |-> 0]

RingName == {"desc", "avail", "used"}

Idx == 0 .. IdxMod - 1

\* DescriptorTable, AvailableRing (idx is last_avail_idx) and UsedRing (idx is
\* used_idx).  None is the record with size 0, which no constructor returns.
NewRing(addr, size) == [base |-> addr, size |-> size, idx |-> 0]
NoRing == NewRing(NullAddr, 0)

Ring == [base : Addr, size : 0 .. MaxQueueSize, idx : Idx]

\* next_used is left out: add_used copies used_idx to it, and nothing reads it.
Queue == [size      : 1 .. MaxQueueSize,
          ready     : BOOLEAN,
          addr      : [RingName -> Addr],
          ring      : [RingName -> Ring],
          nextAvail : Idx]

\* VirtioQueue::new
NewQueue == [size      |-> MaxQueueSize,
             ready     |-> FALSE,
             addr      |-> [r \in RingName |-> NullAddr],
             ring      |-> [r \in RingName |-> NoRing],
             nextAvail |-> 0]

----------------------------------------------------------------------------
(* Configuration by the driver's MMIO writes. *)

\* The u16 values, besides 0, with size & (size - 1) = 0.
PowersOfTwo == {1, 2, 4, 8, 16, 32, 64, 128, 256, 512, 1024,
                2048, 4096, 8192, 16384, 32768}

\* Plausible mistakes in set_size: without the test for zero, without the one for a
\* power of two.  Operators like these, here and in the other modules, are what the
\* properties are tested with; the model does not use them.
SetSizeOrZero(q, size) ==
  IF size \in PowersOfTwo \cup {0} /\ size <= MaxQueueSize
  THEN [q EXCEPT !.size = size]
  ELSE q

SetSizeOfAnyShape(q, size) ==
  IF size # 0 /\ size <= MaxQueueSize THEN [q EXCEPT !.size = size] ELSE q

\* set_size: a rejected size leaves the queue alone, rings that already exist
\* keep the size they were created with.
SetSize(q, size) ==
  IF size \in PowersOfTwo /\ size <= MaxQueueSize
  THEN [q EXCEPT !.size = size]
  ELSE q

\* An address can be set again.
SetRingAddrAgain(q, r, a) ==
  [q EXCEPT !.addr[r] = a, !.ring[r] = IF a = NullAddr THEN @ ELSE NewRing(a, q.size)]

\* set_desc_table_addr, set_avail_ring_addr, set_used_ring_addr: only an address
\* that is still zero can be set.
SetRingAddr(q, r, a) ==
  IF q.addr[r] # NullAddr THEN q
  ELSE [q EXCEPT !.addr[r] = a,
                 !.ring[r] = IF a = NullAddr THEN @ ELSE NewRing(a, q.size)]

SetReady(q, ready) == [q EXCEPT !.ready = ready]

HasAddrs(q) == \A r \in RingName : q.addr[r] # NullAddr

\* What ties the two halves of the struct together: a ring exists exactly for an
\* address that is not zero, has it as its base, and is not empty.
RingsMatch(q) ==
  \A r \in RingName :
    IF q.addr[r] = NullAddr THEN q.ring[r] = NoRing
    ELSE q.ring[r].base = q.addr[r] /\ q.ring[r].size > 0

IsValid(q) == q.ready /\ HasAddrs(q)

\* A reset that forgets the rings, and one that forgets the addresses.
ResetKeepsRings(q) == [NewQueue EXCEPT !.size = q.size, !.ring = q.ring]
ResetKeepsAddrs(q) == [NewQueue EXCEPT !.size = q.size, !.addr = q.addr]

\* reset keeps the size.
ResetQueue(q) == [NewQueue EXCEPT !.size = q.size]

----------------------------------------------------------------------------
(* Ring indices. *)

\* An index that is not reduced to 16 bits.
IncNoWrap(i) == i + 1

WrapInc(i) == (i + 1) % IdxMod

LastAvail(q) ==
  IF q.ring["avail"] # NoRing THEN q.ring["avail"].idx ELSE q.nextAvail

\* The index is stored where get_last_avail_idx does not look for it.
UpdateNextAvailOnly(q, i) == [q EXCEPT !.nextAvail = i % q.size]

UpdateLastAvail(q, i) ==
  IF q.ring["avail"] # NoRing
  THEN [q EXCEPT !.ring["avail"].idx = i]
  ELSE [q EXCEPT !.nextAvail = i % q.size]

\* The avail ring slot read for index i: the handler reduces i modulo the size
\* of the queue, read_avail_ring_entry again modulo the size of the ring.
AvailSlot(q, i) == (i % q.size) % q.ring["avail"].size

\* add_used writes the element to this slot ...
UsedSlot(q) == q.ring["used"].idx % q.ring["used"].size

\* ... and then advances used_idx, whether or not the index can be written after.
CountUsed(q) == [q EXCEPT !.ring["used"].idx = WrapInc(@)]
=============================================================================
