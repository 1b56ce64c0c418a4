# TLA+ verification of the virtio block device

Specifications, model-checking runs and machine-checked proofs for
`axvirtio-devices`: an emulated virtio-mmio block device
(`src/axvirtio-blk`) on top of a virtqueue library (`src/axvirtio-common`), for a
hypervisor that runs it on the vCPU that trapped.

Everything is translated from the source. Line numbers below are those of
`src/axvirtio-blk/src/mmio/device.rs` unless another file is named;
`PROJECT.json` has, for every definition that models code, the lines it models.

## 1. The system

A guest driver sees registers, three rings in its own memory (descriptor table,
available ring, used ring) and an interrupt. Every register access traps to
`mmio_read` or `mmio_write`. A write of `QUEUE_NOTIFY` runs the whole request path
before the guest continues. There are no threads of the device's own: concurrency
comes from several vCPUs being inside `mmio_write` at once, and from the guest's
other vCPUs, which go on using the memory of the rings meanwhile.

| component | state | operations | what makes it correct |
|---|---|---|---|
| virtqueue object (`queue/mod.rs`, `available.rs`, `used.rs`) | size, ready, three addresses, three optional ring objects, `last_avail_idx`, `used_idx`, `next_avail`, `next_used` | `set_size`, three address setters, `set_ready`, `reset`, `update_last_avail_idx`, `add_used` | a ring exists exactly for an address; slots follow the 16-bit indices; the device's `used_idx` is the one in guest memory |
| request path (349-669) | `queues: Mutex<Vec<VirtioQueue>>`, `status`, `interrupt_status`; a copy of the queue and a vector of failed heads in each running handler | `handle_queue_notify`, `process_queue_requests`, `process_descriptor_chain`, `add_used_buffer`, `trigger_interrupt` | every request is executed and completed once with the right status; interrupts are not lost; everything ends |
| register interface (143-347, 672-728) | `status`, `driver_features`, two feature selectors, `queue_sel`, `interrupt_status`, `config_generation` | one per register; `handle_status_write`, `reset_device` | the device uses the features, sizes and addresses that the driver has chosen; a reset leaves nothing |
| descriptor chains (`descriptor.rs`) | none (guest memory) | `follow_chain`, used by `parse_virtio_block_header`, `validate_virtio_block_chain`, `get_data_buffers`, `get_status_addr`, `write_status_byte` | every walk ends, and returns the chain the table describes or fails |
| block request (`block/request.rs`) | none | `execute`: read, write, flush, others | data goes where the descriptors say and nowhere else, also when the guest rewrites them; the backend is called once |
| MMIO transport (`mmio/transport.rs`) | none | range and width checks, byte conversions | a register is reached by a 32-bit access at its offset and by no other |
| configuration space (`block/config.rs`, `read_config_space`) | none | reads of 32 bits | little-endian fields at their offsets |
| constants, device types, errors, `VirtioConfig` | none | tables | |
| backend and guest memory | interfaces only (`backend.rs`, `axaddrspace`) | read, write, flush, length; read and write of objects | external |

How they interact: the transport hands an offset to `mmio_write`; a register write
changes the registers or, with the lock of `queues` held, the queue object.
`QUEUE_NOTIFY` clones the queue under that lock, releases it, and works on the
copy: reads the available ring, follows chains, calls the backend, writes the
status byte. To complete a request it takes the lock again and calls `add_used`
on the *original* queue, releases it and sets a bit of `interrupt_status`. When
the loop is over, it takes the lock once more, stores `last_avail_idx` in the
original, and completes the requests that could not be parsed. `STATUS := 0` holds
the `status` lock throughout `reset_device`, which takes all the others in turn.

What is hard in it: the copy is stale as soon as it is taken (another
notification, a reset, a new set-up); `add_used` makes two writes to guest memory,
each of which may fail; failed requests are completed late; the interrupt is
raised after the lock is released; 16-bit indices wrap; a reset waits for one
lock with another one held. `PROJECT.json`, "hazards", lists each with its line and
the properties that cover it.

## 2. The modules

| module | models |
|---|---|
| `VirtioQueue` | the queue object: records and one operator per method; no variables |
| `BlkDevice` | the request path, reset and the driver's set-up, on any number of vCPUs; extends `VirtioQueue` |
| `BlkRequest` | one request: descriptor chain, data, backend, status byte, with a guest that rewrites descriptors |
| `BlkService` | abstract: what a block device promises its driver |
| `BlkRefinement` | the refinement mapping from `BlkDevice` to `BlkService` |
| `MmioDevice` | the registers, under a guest that writes any of them with any value |
| `MmioAccess` | the way to them: addresses, widths, offsets; register reads and the configuration space; extends `MmioDevice` |
| `MmioDriver` | `MmioDevice` composed with a conforming driver |
| `VirtioQueueProofs`, `BlkDeviceProofs`, `BlkRequestProofs`, `MmioDeviceProofs`, `MmioAccessProofs`, `MmioDriverProofs` | the proofs of the modules they are named after |
| `BlkSerialProofs`, `BlkRefinementProofs` | the proofs about `BlkDevice` entered by one vCPU at a time: where every request is, and the refinement |
| `MCBlkDevice`, `MCBlkRefinement`, `MCBlkRequest`, `MCMmioAccess`, `MCMmioDriver` | constants for TLC |

### VirtioQueue

The three rings have the same life in the code, in three copies of the same
lines, so the fields `desc_table_addr`, `desc_table`, ... are functions of a ring's
name. `idx` of a ring record is `last_avail_idx` or `used_idx`. `None` is the record
with size 0. A 64-bit address is a pair of halves, because the registers write the
halves separately and the setters look at the whole. `WrapInc` is
`wrapping_add(1)`; `SetSize` tests the size as `size & (size - 1) == 0` does. `next_used` is
left out: `add_used` copies `used_idx` to it and nothing reads it.

### BlkDevice

A handler is a record per vCPU (`thr`): where it is, its copy of the queue, its
locals. A step is one access to state that somebody else can see. From
`handle_queue_notify`: `CheckReady` (status lock), `CloneQueue` (queue lock),
`ReadAvailIdx`, then per entry `ReadAvailEntry`, `ParseRequest`, `Execute`,
`WriteStatus`, `AddUsed`, `Publish`, `TriggerInterrupt`, or `FailRequest` when parsing
fails; after the loop `NothingDone` or `FinishLoop`, then per failed request
`AddUsedError` and `PublishError`, then `ErrorsDone` and `TriggerLast`. The lock of the
queues is a variable because it is held across the two writes of `add_used` and over
all failed requests; the status lock is one because a reset holds it.
`ResetBegin`, `ResetRegisters` and `ResetQueues` are `STATUS := 0` in three steps, which
other vCPUs may interleave.

The driver is the environment, derived from what the device expects of one: it
clears the rings, writes the three addresses, `QUEUE_READY` and `DRIVER_OK`, posts
requests, notifies, acknowledges interrupts and then reaps the used ring until it is
empty, and resets the device from any vCPU. With `Pauses` it also writes
`QUEUE_READY` := 0 and 1 while handlers are at work, after which `add_used` refuses
the completions of requests that have been executed.

Abstractions:
- The descriptors of a request are its *kind*: what parsing, the backend and the
  status write make of them. "ok" goes to the backend, "unsupp" is a type the device
  does not know, "nodata" is a write whose data cannot be read from guest memory,
  "bad" does not parse but has a status byte, "nostatus" has none, "unmapped" has one
  that cannot be written. The code reads a chain again to write the status byte, and
  so does the model (`StatusWritable` looks at `chain`, not at the parsed request).
- Data and the length field of the used element are left out; `BlkRequest` has them.
- `Faults` says which accesses to the rings may fail, one element per error path.
- The driver reuses a head as soon as it has reaped it; a head is a descriptor index.
- `VIRTQ_USED_F_NO_NOTIFY` is cleared with the rings and never set; the code reads
  the driver's wish from the used ring, where the driver does not write it.

Some operators are commented as mistakes (`IncNoWrap`, `SetSizeOrZero`, `NeverLocked`,
`SkipStatus`, `ForgetUnpublished`, ...). No specification uses them. They are what a
plausible bug would turn the operator next to them into; with that replacement
each property fails in its run, so each can tell a wrong program from this one.

### BlkRequest

What `BlkDevice` does in `ParseRequest`, `Execute` and `WriteStatus`, in small steps: one
descriptor read, one buffer copied, one call of the backend. The code follows the
chain four times to parse it (header, length, buffers, status address) and once more
to write the status byte; `Follow(p)` starts a walk for purpose `p`, `ReadDesc` and
`BadIndex` are the loop body of `follow_chain`, whose bound is tested after a
descriptor has been taken. Between any two steps `Rewrite` lets the guest store
another descriptor. `granted` is history: the cells that a device-writable descriptor
names or has named. The backend may transfer less than asked, or fail; guest memory
may fail in the middle of a buffer (`Mapped`), a descriptor may be unreadable.

Cells stand for a sector's worth of data, one number of the header, or the status
byte, so a header has two cells. Lengths are taken modulo `LenMod` where the code
casts to `u32`. `VIRTQ_DESC_F_INDIRECT` is not a flag here: the device never looks at it.

The reference definitions (`ChainsOf`, `KindOf`) are over the table as it stands:
the chain is the path from the head that ends and takes no descriptor twice.
`KindOf` is the link to `BlkDevice`: property `AnswersAsService` says that a request is
answered as `BlkService` allows for the kind that its chain has, so that the kinds
`BlkDevice` works with are what the code makes of descriptors.

### BlkService and BlkRefinement

`BlkService` knows requests that are free, pending or done, with a status and the
number of backend calls. A request under a head is *done* in the mapping from the
write of the used index that exposes it, *pending* while it is outstanding before
that, and *free* otherwise. That a completed request's status and calls may not
change is then a property of steps that touch neither: a second execution, or a
status written after the index, is no step of the service. `Complete` takes a set of
requests: when a write of the used index has failed, `used_idx` has been advanced all
the same, and the next write exposes both elements. A request of kind "unmapped" has no
answer: the device cannot write its status byte and never completes it.

### MmioDevice and MmioDriver

One action per writable register, each handler one step: the property is about
sequences of writes, and the interleavings are in `BlkDevice`. Status and features
are sets of flag names; a feature word is half 0 or 1. `QUEUE_NUM` is truncated to
16 bits before it is checked, as `value as u16` does. A notification takes every entry
up to the index found in memory (any of `AvailIdxs`) and counts any number of them on the
used ring, as an entry that cannot be read, a status byte that cannot be written or a
failing `add_used` leaves one out; it may or may not raise an interrupt, and does nothing
where the index cannot be read. `QUEUE_SEL` can only select queue 0
(`DEFAULT_NUM_QUEUES` is 1) and `config_generation` is never anything but 0, so they are
not variables.

`MmioAccess` puts `mmio_read` and `mmio_write` as a whole on top: from an address and a
width, `validate_read_access` and `validate_write_access` make an offset or refuse, and
the offset chooses the register. `Validate` returns a set, because an address below
the base counts as in range (`transport.rs:39` saturates) and then `calculate_offset`
panics or wraps, depending on the build. A read changes nothing, so it is an operator
on the state. The configuration space is read as bytes.

`MmioDriver` conjoins each action with a step of a driver that follows the
order of the virtio specification (of which
`src/axvirtio-blk/tests/block_tests.rs:706`, `test_driver_initialization_sequence`, is
the beginning), chooses features, a size and addresses, and may start again at any
time with other choices. A notification reads the available index where the *device* has
its ring: `IndexFound` is what the driver has posted if that is the driver's ring, and
anything if it is elsewhere, as after a dropped half of an address.

## 3. What is checked

TLC 2, two workers; times are of a small machine.

| run | instance | properties | states, time |
|---|---|---|---|
| `blk_serial` | 1 vCPU, 2 heads, index mod 4, ring of 2; kinds ok, nostatus, unmapped; spurious notifications; resets; `QUEUE_READY` taken back; reads of the index, of an entry and of the flags, and both writes of `add_used` may fail | `TypeOK`, `RequestConservation`, `FreshSetup`, `InterruptNotLost`, `LostOnlyByFailure`, `ImplementsService` | 1.3M, 2 min 45 s |
| `blk_smp` | 2 vCPUs, 2 heads, 2 posts; ok, unsupp, nostatus | `PublishesOwnElement` | 541k, 17 s |
| `blk_reset` | 2 vCPUs, 1 head, ring of 1, index mod 2; ok, bad; resets | `UsedIndexCoherent`, `InterruptNotLost`, `ResetEnds` | 460k, 2.5 min |
| `blk_request` | tables of 4 descriptors, some malformed, some with parts of memory unmapped; reads, writes, flushes, an unknown type; 2 rewrites by the guest, one of which leaves a chain of one descriptor; lengths mod 4; fair | `TypeOK`, `WalkBounded`, `WalkIsChain`, `BuffersFit`, `OneCall`, `DataIntact`, `WritesGranted`, `AnswersAsService`, `Answered` | 619k, 45 s |
| `blk_served` | 1 vCPU, 2 heads; ok, nodata, bad; resets; fair | `RequestsServed`, `ImplementsFairService` | 208k, 2 min 10 s |
| `mmio_device` | words 0, 1; sizes 0, 3 and 10 = 2 mod 8; one feature bit, offered in half 0 only; available index 0 or 3 in guest memory; 23 addresses in and around the device, two widths | `TypeOK`, `RingsMatchAddrs`, `SlotsFollowIndex`, `NoStrayAccess`, `ConfigReadable`, `RingsFixedUntilReset`, `ResetReadsFresh` | 157k, 2 min 50 s |
| `mmio_driver` | sizes 1, 2, 4; three addresses; two features per half, one offered; 2 posts; resets | `LayoutAgreed`, `IndicesAgreed`, `FeaturesAgreed` | 5.6k, 3 s |

What they say:

- `RequestConservation`: each request that is anywhere is outstanding and in one
  place only: between the handler's position and the available index, in the
  handler's hands, in its vector of failed heads, or counted on the used ring.
- `LostOnlyByFailure`: no step but these gives a request up: a read of the available
  entry fails (412), the status byte cannot be written (627), `add_used` fails or
  finds a queue that the driver has stopped (457, 636). A failed write of the used
  index loses nothing: `used_idx` has been advanced (`used.rs:183`), and the next
  completion publishes both.
- `FreshSetup`: when the driver sets `DRIVER_OK` again after a reset, no interrupt is
  pending and both positions are zero. With one vCPU only, see below.
- `UsedIndexCoherent`, `PublishesOwnElement`, `InterruptNotLost` hold with any number of
  vCPUs in the device: the lock around `add_used` is what keeps index and slot
  together, and a completion that the driver has not reaped has an interrupt
  pending or a handler on the way to `trigger_interrupt`. A read of the flags that
  fails after a request (650) is made up for by the one at the end of the loop (464);
  only when that one fails is the interrupt lost.
- `ResetEnds`: nobody who holds the queue lock waits for the status lock.
- `WalkIsChain`, `AnswersAsService`, `DataIntact`: for descriptors that stay as they are,
  each of the five walks returns the chain or fails where there is none, the answer is
  one the service has for that kind of request, and data is where it belongs: a read
  leaves a first part of what is on disk and zeros after it, a write puts a first
  part of its buffers on disk, and nothing else changes. The length of the used element
  is not compared with anything (see the disagreements below).
- `WalkBounded`, `Answered`, `BuffersFit`, `OneCall`, `WritesGranted` hold whatever the guest
  rewrites and when: walks stop at one descriptor more than the table has, the
  handler ends, the slices of the staging buffer stay inside it, the backend is called
  once, and only memory the guest has offered for writing is written. That the slice
  `1 .. len - 1` of `get_data_buffers` is guarded against a chain that has become too short
  since its length was checked (`descriptor.rs:268`) is in `Middle`; the panic that it would
  be without the guard has no counterpart in the model.
- `ImplementsService`: whatever accesses fail and whenever the driver stops or resets
  the device, no step of the request path is more than one step of the block service.
- `ImplementsFairService`, `RequestsServed`: where no access fails, it also answers,
  although it looks at the available index once per notification only.
- `RingsMatchAddrs`: `handle_queue_notify` tests addresses, the methods of the queue
  test ring objects; no sequence of register writes makes the two differ.
- `RingsFixedUntilReset`: once set, a ring keeps address and size until a reset; its index
  moves only in a notification of a queue that is ready, and the used index by no more
  than the available one. The *slot* of an available index is not fixed: it is taken
  modulo the queue's size first (409), which `QUEUE_NUM` changes.
- `NoStrayAccess`: no access of another width, beyond the device's end or below its base
  comes out at a register that can be written, and a read there finds that register.
- `ResetReadsFresh`, `ConfigReadable`: after a reset every register that can change reads
  as on the first day, and each field of the configuration can be read somewhere.
- `SlotsFollowIndex`: any size that can be accepted divides 2^16.
- `LayoutAgreed`, `FeaturesAgreed`: through any number of resets with other choices, driver
  and device agree.
- `IndicesAgreed`: both start from 0 in every session, and whatever becomes of the entries
  of a notification, the device has counted no more than it has taken and taken no more
  than was posted. The two indices need not be equal: a failure leaves an entry uncounted.

Bounds. Indices are taken modulo `IdxMod`, 2 to 8 instead of 2^16, with a ring of
`MaxQueueSize`, 1 to 4 instead of 256, dividing it as in the code; both wrap many times
in the runs with 1 vCPU and in `blk_reset`. `MaxPosts` stops the driver in the runs
where unbounded posting by two vCPUs would wrap indices past positions a stale
handler still holds, which takes 2^16 requests during one handler in the code;
where `MaxPosts >= IdxMod` it does not bind. `MaxExecs` caps the count of backend calls at 2,
one more than any request should see. Two heads are needed for an element to be
mistaken for another, two vCPUs for every race between handlers (the lock has one
holder), and one request in flight over a reset for every stale handler.
In `blk_request` four descriptors are a header, two buffers and a status, so a chain can
skip, turn back at every place, loop, or leave the table; the tables vary every field
that the code tests. With two rewrites the guest can change a link between two walks
and change it back. Buffers hold up to three cells, and lengths are taken modulo 4, so
the used length wraps (`TypeOK` has its range). In `mmio_device` the addresses are 0, the two next to the device's
range, the registers that can be written and two that cannot, the configuration space, and
offsets that are no register.
Deadlock is checked except in `blk_smp`, `blk_request` and two of the runs below, where
`MaxPosts`, the end of the request or the missing notification lets the system stop for
good.

Fairness (`FairSpec`). A handler that has been entered runs to its end: it is
hypervisor code, synchronous in the exit of the vCPU, and every lock is released by
a handler that runs; so `WF_vars(Handler(v))`. The driver sends a notification that it
owes, and serves interrupts: `WF` of the notification, of the acknowledgement and of
the two steps of the scan. Nothing makes it post or reset. `RequestsServed` is a
leads-to that a reset also satisfies. `BlkRequest` assumes `WF` of the handler's steps for
the same reason, and nothing of the guest: `Answered` holds against one that rewrites
descriptors, because the walks are bounded.

### Where code and documentation disagree

Five runs expect a violation; each is a behaviour of the code that TLC shows.

- `blk_duplicates` (`CompletedOnce`). Two vCPUs notify. Both clone the queue with the
  same `last_avail_idx` (358-361), both execute and complete the entry. The comment
  at 38-39 and the README promise safe concurrent access.
- `blk_stale_reset` (`FreshSetup`). A vCPU is in a handler while another one resets
  and the driver sets the queue up again; the handler then stores the old
  `last_avail_idx` in the new queue (454) or sets `interrupt_status`. Same comment.
- `blk_event_idx` (`RequestsServed`). `VIRTIO_F_RING_EVENT_IDX` is offered
  (`constants/block.rs:135`) and nothing writes `avail_event`: a driver that has
  negotiated it sends one notification and none after.
- `mmio_wide` (`LayoutAgreed`). An address can only be set while it is zero
  (`queue/mod.rs:82`), so the high half of a ring above 4 GiB, written after a low half
  that is not zero, is dropped. `mmio_driver` therefore has addresses of which one half
  is zero.
- `mmio_config` (`ConfigLayout`). `physical_block_exp`, `alignment_offset` and `min_io_size`
  lie in one dword by the comments of `block/config.rs`; `read_config_space` answers each
  at an unaligned offset of its own (764-766) and refuses every width but 32 bits (749),
  so the dword has zeros where two of them belong.

Disagreements that no run shows, seen while modelling:

- `transport.rs:52` says "Return 0 for out-of-range reads" and returns *offset* 0, where
  `mmio_read` finds `VIRTIO_MMIO_MAGIC_VALUE`; `transport.rs:74` says "Ignore out-of-range
  writes" and the write at offset 0 is `Err(InvalidRegister)`.
- An address below the base is in range (`transport.rs:39`), and `calculate_offset`
  panics in a debug build and wraps in a release build.
- `used.rs:19` describes the length of a used element as that of the descriptor chain;
  it is that of the data buffers (486), for a write as well as for a read. `UsedLength`
  computes what the code does; no property says that it is right or wrong.
- A transfer that the backend cuts short is reported as OK (`request.rs:145`, 223).

## 4. What is proved

TLAPS, all obligations by Z3, Zenon and LS4, for every number of vCPUs, every size,
every set of heads, kinds, faults, words and registers. Assumptions:
`WordAssumption` (0 is a word), `SizeAssumption` (the ring's size divides the range of the
index, which it does as a power of two up to 2^15), `DeviceAssumption` (types of the
constants; ring addresses are not null; nobody has the name of no lock owner),
`RegisterAssumption` (types; selectors contain 0, the value of a reset),
`RequestAssumption` (types of tables and memories), `AccessAssumption` (the device lies
in the address space, and so would its configuration space).

| theorem | says |
|---|---|
| `BlkDeviceProofs!TypeCorrect` | `TypeOK` |
| `BlkDeviceProofs!UsedIndex` | `UsedIndexCoherent` |
| `BlkDeviceProofs!OwnElement` | `PublishesOwnElement` |
| `BlkDeviceProofs!Interrupts` | `InterruptNotLost` |
| `BlkDeviceProofs!FreshAfterReset` | `FreshSetup`, for a guest with one vCPU |
| `BlkDeviceProofs!Inductive` | the inductive invariant `IInv` |
| `BlkSerialProofs!Serial` | the invariant `FreshInv /\ SerialInv`, with one vCPU |
| `BlkSerialProofs!Conservation` | `RequestConservation`, with one vCPU |
| `BlkSerialProofs!CompletesOnce` | `CompletedOnce`, with one vCPU; `blk_duplicates` refutes it for two |
| `BlkSerialProofs!LostByFailure` | `LostOnlyByFailure`, with one vCPU |
| `BlkRefinementProofs!Implements` | `ImplementsService`: `BlkDevice` implements `BlkService`, with one vCPU |
| `BlkRequestProofs!Inductive` | the inductive invariant `IInv` |
| `BlkRequestProofs!TypeCorrect` | `TypeOK` |
| `BlkRequestProofs!BuffersFitIn` | `BuffersFit`, for any number and size of buffers |
| `BlkRequestProofs!WalksBounded` | `WalkBounded`, for every table and rewriting |
| `BlkRequestProofs!CalledOnce` | `OneCall` |
| `BlkRequestProofs!Granted` | `WritesGranted` |
| `BlkRequestProofs!WalksFindChain` | `WalkIsChain`, for every table |
| `BlkRequestProofs!Serves` | the invariant `Traced /\ Served` |
| `BlkRequestProofs!DataStays` | `DataIntact`, for every table, memory, disk and transfer |
| `BlkRequestProofs!AnsweredAsService` | `AnswersAsService` |
| `MmioDeviceProofs!RegistersTyped` | `TypeOK` |
| `MmioDeviceProofs!RingsMatchTheirAddrs` | `RingsMatchAddrs` |
| `MmioDeviceProofs!RingsStay` | `RingsFixedUntilReset` |
| `MmioDeviceProofs!SlotsFollow` | `SlotsFollowIndex`, where `MaxQueueSize` is a power of two |
| `MmioDriverProofs!FeaturesAgree` | `FeaturesAgreed` |
| `MmioDriverProofs!LayoutsAgree` | `LayoutAgreed`, for addresses of which one half is zero |
| `MmioDriverProofs!IndicesAgree` | `IndicesAgreed`, for addresses of which one half is zero |
| `MmioAccessProofs!NoneStrays` | `NoStrayAccess`, for every base, range, address and width |
| `MmioAccessProofs!ProperWrites` | the registers change only by a 32-bit access to a writable register in range |
| `MmioAccessProofs!AccessesImplementRegisters` | `AccessSpec` implements `MmioDevice`'s `Spec`, so the theorems of `MmioDeviceProofs` hold of it |
| `MmioAccessProofs!ResetsReadFresh` | `ResetReadsFresh` |
| `MmioAccessProofs!FieldsReadable` | `ConfigReadable`, for a range that covers the configuration space |

`VirtioQueueProofs` has one lemma per method of the queue: it keeps the queue's type
and keeps rings and addresses together.

`TypeOK` of `BlkDevice` is not inductive: a slot is an index modulo the size of a ring,
and a ring that does not exist has size 0. `IInv` adds
- `RingsMatch(queue)`: a ring exists exactly for an address;
- `LockDiscipline`: a lock's owner is the handler at one of the places that hold it,
  and a handler at such a place is the owner;
- `HandlersOK`: a handler in the loop has a copy with all addresses, one about to
  publish finds the queue valid;
- `PhasesOK`: the device has no used ring from a reset to the driver's write of its
  address, until when nothing moves the cleared index.

The argument for concurrency is the lemma `PublisherUndisturbed`: while a handler
stands between the element and the index, it owns the lock, the driver is past its
set-up (the queue is valid), and so no step of anybody changes the queue or the used
ring. `OwnElement` follows from it and from `PublisherMade`, that only the first half of
`add_used` brings a handler there; `UsedIndex` follows with `PhasesOK` for
set-up. `Interrupts` needs one thing more, `Cursors`: a handler in its loop that has
processed an entry has moved its cursor, and cannot meet its first position again before
the index it has read (`AheadWraps`), so that it does ask for an interrupt at the end
when the read of the flags after a request has failed. The rest goes through the steps
that publish an index, all of which leave the handler on its way to
`trigger_interrupt`. `FreshAfterReset` assumes one vCPU: from a reset to `DRIVER_OK` a
handler then gets no further than its test of the status (`FreshInv`); `blk_stale_reset`
is the run with two.

`BlkSerialProofs`, with one vCPU. Requests stand in four places: a window of the
available ring (from the handler's cursor to the available index), the handler's
hands, its vector of failed heads, a window of the used ring (from what the driver has
reaped to the device's index). `InPlace` says that no window and no vector has a head
twice (`NoRepeat`), that the places share none (`Apart`) and that all of them hold
outstanding requests. Its lemmas move a head from place to place: `WindowGrows` and
`WindowShrinks` when an index goes on by one, `WindowStays` when a slot outside a window is
written; no window outgrows its ring (`WindowRoom`), because its heads differ and a ring
has as many slots as there are heads. They rest on arithmetic modulo `MaxQueueSize` and
`IdxMod` (`SlotShift`: a slot does not notice that the index wraps).
`SerialInv` adds what keeps the places where they are: the copy has the
queue's own position (`Sees`), which is where the assumption of one vCPU comes in; the
rings have full size; the driver's index is not ahead of the device's. `Conservation` and
`CompletesOnce` count the windows (`WindowSize`); `LostByFailure` goes through the steps that
empty a hand. `SerialStep` is by cases over `Next`, one lemma per action.

`BlkRefinementProofs`: `Records` says what a request's status byte and count of backend
calls are in each place: untouched while it waits, answered as its kind asks once it is a
failed head or on the used ring. A step of the used index then maps to `Complete` of
the heads between its old and its new value, a reaping to `Reap`, a posting to `Submit`,
the last step of a reset to `Reset`, and everything else to a stutter.

`BlkRequestProofs`, whatever the guest rewrites: `IInv` says of the walk, and of the
buffers kept from an earlier one, that every device-writable descriptor in them was in
the guest's table when it was read (`Honest`), so names cells that are `granted`; that
the walk has at most one descriptor more than the table; at which places the backend has
been called; and that the offset in the staging buffer is the size of the buffers of the
request's direction so far (`CopyOK`). A rewrite of the table only adds to `granted`, so it
disturbs none of this. Sizes are sums over a sequence, by the recursive function
`SizeUpTo`; that it exists and grows by one buffer at a time (`SizeExists`, `SizeSteps`,
`SizeGrows`) is proved from least elements of sets of numbers (`LeastElement`,
`SetInduction`), because the induction theorems of the library cannot be applied with the
provers at hand.

For a table at rest (`Steady`): a walk *traces* the table, each descriptor being the one
its predecessor names (`Traced`). One that has ended repeats no index, for it would
have gone round, and so by the pigeonhole principle is not longer than the table; any
other path agrees with it (`PathAgrees`), so that it is the only chain. One that fails has
met an unreadable descriptor or has taken more than there are, and then there is no
chain. `Served` goes on stage by stage: what the walks have found of the chain
(`Knows`), which buffers are in the staging buffer and where (`Gathered`), what has come
from the backend and which buffers are in guest memory (`Delivering`), what is to be
reported (`Outcome`). At the end it gives `DataIntact`, and with `Parses` and `KindOf`
the answer of `BlkService`.

`MmioDeviceProofs`: types and `RingsMatchAddrs` are inductive together. `RingsStay`: every
register write but a reset leaves the rings that exist as they are (`SameRingsKept`), and a
notification moves the available index to the one found and the used index forward by n,
which is no more (`ServedKept`, with `DistForward` for the way around 2^16). For
`SlotsFollow`, every accepted size is a power of two no larger than `MaxQueueSize`, so
divides it and with it the range of the index. `MmioAccessProofs`: an access changes
the registers only at the offset of a writable one, which no access out of range and
none of another width is given, so it maps to one action of `MmioDevice` or to a stutter. `ResetsReadFresh`
compares every register after `Reset` with `powerUp`, which nothing changes (`PowerUp`).
`FieldsReadable` goes through the fields: those that fill a dword, or the geometry's
three, are its bytes; the other three answer at their own offset.

`MmioDriverProofs`: each invariant says what holds after every access of the
initialisation. For the features: which half is already in the device (half 1 before
half 0) and where the selectors are. For the layout: `InForce(r)`, the address of which
those halves are in place that the driver has written; it needs that the first half not
zero is the whole address, as `mmio_wide` shows. For the indices: all are zero until
`DRIVER_OK`; after it the layout says that the device reads the index in the driver's ring
(`FoundPosted`), so a notification takes the available index to what is posted, and the used
index stays behind it (`StaysBehind`).

The inductive invariants were checked with TLC on small instances before they were
proved: `SerialInv` and `Records` with the faults, kinds and resets of `blk_serial`, `Traced` and
`Served` on the tables of `blk_request`. Two things that the proofs need are easily
overlooked: where a write of the used index has failed, the next one completes several
requests at once, so `BlkService!Complete` takes a set; and where requests are is said
only while the driver runs (`AllKept`), as during a set-up the rings are cleared by hand.

## 5. What is only model-checked

- Liveness (`RequestsServed`, `ResetEnds`, `Answered`, and with them
  `ImplementsFairService`): TLAPS does not handle fairness and `ENABLED`. The safety part
  of `ImplementsFairService` is `Implements`.
- More than one vCPU in the request path: `UsedIndexCoherent`, `PublishesOwnElement` and
  `InterruptNotLost` are proved for any number; `FreshSetup`, `RequestConservation`,
  `LostOnlyByFailure` and `ImplementsService` for one, and are false of two or say nothing
  of them, as `blk_duplicates` and `blk_stale_reset` show.
- The five disagreements of section 3: a counterexample is found, not proved.

## 6. What is not modelled

- `QUEUE_SEL` and more than one queue: `DEFAULT_NUM_QUEUES` is 1.
- Writes of `QUEUE_NUM` and addresses while a handler runs: `BlkDevice`'s driver does this
  during set-up only; `MmioDevice` has such writes between handlers. `QUEUE_READY` is
  written during handlers (`Pauses`).
- Two requests whose chains share descriptors:
  `BlkRequest` has one request, `BlkDevice` has kinds instead of chains.
- `value_to_bytes` and `bytes_to_value` of the transport, `chain_length`, `validate_chain`,
  `write_desc`, `is_indirect`, `set_used_idx`, `set_notification`, the `write_*_header`
  helpers, `pop_avail`: nothing in the device calls them, so nothing says what they are
  to do.
- Contents of constants tables that no operation reads, error types, crate roots, traits
  without code. The backend and the accessor of guest memory are other crates; they
  are the choices that `Transfers`, `Outcome`, `Faults`, `Readable` and `Mapped` allow.

## 7. Plan

Done: queue object, request path, service and refinement; descriptor chains and data of
a request; registers, the accesses that reach them, configuration space, driver; proofs
of section 4, which state every safety and action property that a passing run checks.

Left, in this order:

1. `MmioDriver` and `BlkDevice` agree on what a set-up is only by reading: the layout and
   the indices at `DRIVER_OK` (`LayoutsAgree`, `IndicesAgree`) imply `BlkDevice`'s set-up.
   Where the driver's addresses are wide they do not, as `mmio_wide` shows.
2. That the queue lock has one holder and `ResetEnds`' safety half: nobody who holds the
   queue lock waits for the status lock, for every number of vCPUs.
3. `QUEUE_NUM` and addresses written by a second vCPU during a handler.
