----------------------------- MODULE BlkRequest -----------------------------
(***************************************************************************)
(* One request, from the head that process_queue_requests has read to the    *)
(* used element (process_descriptor_chain of                                 *)
(* src/axvirtio-blk/src/mmio/device.rs, queue/descriptor.rs,                 *)
(* block/request.rs): the descriptor chain in guest memory is followed four  *)
(* times to parse the request, the data is copied between guest memory and   *)
(* the backend, and the chain is followed once more to write the status      *)
(* byte.  A step reads one descriptor, copies one buffer or calls the        *)
(* backend; between any two of them the guest may rewrite a descriptor.      *)
(*                                                                           *)
(* Module BlkDevice has the rings, the locks and the other handlers; there   *)
(* a request is only its kind, which is computed here (KindOf).              *)
(*                                                                           *)
(* Abstracted: a cell of guest memory or disk is a sector's worth of data,   *)
(* one number of a header, or the status byte; the header is two cells, type *)
(* and sector.  VIRTQ_DESC_F_INDIRECT is a flag the device never looks at.   *)
(***************************************************************************)
EXTENDS Naturals, Sequences, SequencesExt

CONSTANTS
  QueueSize,     \* descriptors in the table
  RequestHead,   \* the head of the chain
  Readable,      \* descriptors whose memory can be read
  Mapped,        \* cells of guest memory that can be accessed
  Tables,        \* tables the driver may post
  Memories,      \* contents of guest memory when it posts
  Disk,          \* contents of the disk then
  Rewrites,      \* <<index, descriptor>>: what the guest may store meanwhile
  MaxRewrites,   \* bound: how often it does
  LenMod         \* the used length wraps here; 2^32 in the code

Index == 0 .. QueueSize - 1
Desc == [addr : Nat, len : Nat, write : BOOLEAN, more : BOOLEAN, next : Nat]

HeaderSize == 2
MinChain == 2
T_IN == 0
T_OUT == 1
T_FLUSH == 4

Status == {"none", "OK", "IOERR", "UNSUPP"}
StatusByte(s) == CASE s = "OK" -> 0 [] s = "IOERR" -> 1 [] OTHER -> 2

ASSUME RequestAssumption ==
  /\ QueueSize \in Nat \ {0} /\ RequestHead \in Nat
  /\ Readable \subseteq Index
  /\ Mapped \subseteq Nat
  /\ Tables \subseteq [Index -> Desc]
  /\ Memories \subseteq [Mapped -> Nat]
  /\ Disk \in Seq(Nat)
  /\ Rewrites \subseteq Index \X Desc
  /\ MaxRewrites \in Nat
  /\ LenMod \in Nat \ {0}

VARIABLES
  \* Guest memory and the backend.
  table,       \* the descriptor table
  mem, disk,
  left,        \* rewrites the guest can still make
  \* The handler.
  pc,
  walk,        \* descriptors read by the follow_chain in progress
  at,          \* its current_index
  outcome,     \* "going", "ended" or "failed"
  type, sector,
  buffers,     \* the data buffers, as descriptors
  data,        \* the staging buffer
  next, off,   \* buffers looked at, and buffer_offset
  status,
  answer,      \* "none", "used" or "dropped", and then
  usedLen,     \* the length of the used element
  \* History.
  calls,       \* calls of the backend
  before,      \* memory and disk when the request was posted
  granted      \* cells that a device-writable descriptor has ever named

guest   == <<table, left, before, granted>>
walking == <<walk, at, outcome>>
request == <<type, sector, buffers>>
copying == <<data, next, off>>
result  == <<answer, usedLen>>
vars    == <<guest, mem, disk, pc, walking, request, copying, status, result, calls>>

----------------------------------------------------------------------------
(* Buffers. *)

Cells(d) == d.addr .. d.addr + d.len - 1
LastOf(chain) == chain[Len(chain)]
WritableCells(t) == UNION {Cells(t[i]) : i \in {j \in Index : t[j].write}}

\* How many cells the first n descriptors have, of those whose write flag is in flags.
SizeUpTo(descs, flags) ==
  LET share(d) == IF d.write \in flags THEN d.len ELSE 0
      size[n \in 0 .. Len(descs)] == IF n = 0 THEN 0 ELSE size[n - 1] + share(descs[n])
  IN  size

SizeOf(descs, flags) == SizeUpTo(descs, flags)[Len(descs)]

\* BlockRequest::size
Total(descs) == SizeOf(descs, BOOLEAN)

\* f with the first n elements of s stored at a, a + 1, ...
Stored(f, a, s, n) ==
  [k \in DOMAIN f |-> IF k \in a .. a + n - 1 THEN s[k - a + 1] ELSE f[k]]

Zeros(n) == [k \in 1 .. n |-> 0]

\* The staging buffer, all zero; one cell for each buffer is not enough.
CellPerBuffer(descs) == Zeros(Len(descs))
Staging(descs) == Zeros(Total(descs))
Contents(m, d) == [k \in 1 .. d.len |-> m[d.addr + k - 1]]

\* get_status_addr accepts the last descriptor.
IsStatus(d) == d.write /\ d.len >= 1

----------------------------------------------------------------------------
(* follow_chain. *)

Parsing == {"header", "length", "buffers", "statusAddr"}
Walking == Parsing \cup {"complete", "error"}
PC == Walking \cup {"execute", "deliver", "gather", "store", "done"}

\* The descriptors of the walk before are kept.
FollowOn(p) ==
  /\ pc' = p
  /\ walk' = walk /\ at' = RequestHead /\ outcome' = "going"

Follow(p) ==
  /\ pc' = p
  /\ walk' = <<>> /\ at' = RequestHead /\ outcome' = "going"

Init ==
  /\ table \in Tables /\ mem \in Memories /\ disk = Disk
  /\ left = MaxRewrites
  /\ pc = "header" /\ walk = <<>> /\ at = RequestHead /\ outcome = "going"
  /\ type = 0 /\ sector = 0 /\ buffers = <<>>
  /\ data = <<>> /\ next = 0 /\ off = 0
  /\ status = "none" /\ answer = "none" /\ usedLen = 0
  /\ calls = 0
  /\ before = [mem |-> mem, disk |-> disk]
  /\ granted = WritableCells(table)

\* One more still.
TooLongByTwo(chain) == Len(chain) > QueueSize + 1

\* The bound is tested after a descriptor has been taken and its successor chosen.
TooLong(chain) == Len(chain) > QueueSize

ReadDesc ==
  /\ pc \in Walking /\ outcome = "going"
  /\ at \in Readable
  /\ walk' = Append(walk, table[at])
  /\ IF table[at].more
     THEN /\ at' = table[at].next
          /\ outcome' = IF TooLong(walk') THEN "failed" ELSE "going"
     ELSE at' = at /\ outcome' = "ended"
  /\ UNCHANGED <<guest, mem, disk, pc, request, copying, status, result, calls>>

\* An index past the table, or a descriptor that cannot be read.
BadIndex ==
  /\ pc \in Walking /\ outcome = "going"
  /\ at \notin Readable
  /\ outcome' = "failed"
  /\ UNCHANGED <<guest, mem, disk, pc, walk, at, request, copying, status, result, calls>>

----------------------------------------------------------------------------
(* parse_virtio_request: every error goes to the error branch of               *)
(* process_queue_requests, which follows the chain to write IOERR.             *)

Parsed(step) == pc = step /\ outcome = "ended"

\* A walk that failed is tried again.
WalkRetried ==
  /\ pc \in Parsing /\ outcome = "failed"
  /\ Follow(pc)
  /\ UNCHANGED <<guest, mem, disk, request, copying, status, result, calls>>

WalkFails ==
  /\ pc \in Parsing /\ outcome = "failed"
  /\ Follow("error")
  /\ UNCHANGED <<guest, mem, disk, request, copying, status, result, calls>>

IsHeader(d) == ~d.write /\ d.len >= HeaderSize
HeaderCells(d) == d.addr .. d.addr + HeaderSize - 1

ParseHeader ==
  /\ Parsed("header")
  /\ LET d == walk[1]
     IN  IF IsHeader(d) /\ HeaderCells(d) \subseteq Mapped
         THEN type' = mem[d.addr] /\ sector' = mem[d.addr + 1] /\ Follow("length")
         ELSE UNCHANGED <<type, sector>> /\ Follow("error")
  /\ UNCHANGED <<guest, mem, disk, buffers, copying, status, result, calls>>

ValidateLength ==
  /\ Parsed("length")
  /\ Follow(IF Len(walk) >= MinChain THEN "buffers" ELSE "error")
  /\ UNCHANGED <<guest, mem, disk, request, copying, status, result, calls>>

\* All but the first and the last; none if the chain has become too short for that.
Middle(chain) == IF Len(chain) < MinChain THEN <<>> ELSE SubSeq(chain, 2, Len(chain) - 1)

GetDataBuffers ==
  /\ Parsed("buffers")
  /\ buffers' = Middle(walk)
  /\ Follow("statusAddr")
  /\ UNCHANGED <<guest, mem, disk, type, sector, copying, status, result, calls>>

\* The last descriptor is not looked at.
StatusUnchecked ==
  /\ Parsed("statusAddr")
  /\ pc' = "execute"
  /\ UNCHANGED <<guest, mem, disk, walking, request, copying, status, result, calls>>

\* The address that is found here is not used.
GetStatusAddr ==
  /\ Parsed("statusAddr")
  /\ IF IsStatus(LastOf(walk))
     THEN pc' = "execute" /\ UNCHANGED walking
     ELSE Follow("error")
  /\ UNCHANGED <<guest, mem, disk, request, copying, status, result, calls>>
----------------------------------------------------------------------------
(* execute_guest_memory_request and execute_block_request. *)

\* The request is executed; write_status_byte follows the chain again.
Respond(s) == status' = s /\ Follow("complete")

\* How much a backend may transfer: any part of what it is asked for.
Transfers(from, n) == {k \in 0 .. n : k = 0 \/ from + k <= Len(disk)}

Executing(t) == pc = "execute" /\ type = t

\* The number of bytes read is not looked at: the rest of the buffer stays zero.
ExecuteRead ==
  /\ Executing(T_IN)
  /\ calls' = calls + 1
  /\ LET zeros == Staging(buffers)
     IN  \/ /\ \E n \in Transfers(sector, Len(zeros)) :
               data' = Stored(zeros, 1, SubSeq(disk, sector + 1, sector + n), n)
            /\ pc' = "deliver"
            /\ UNCHANGED <<walking, status>>
         \/ Respond("IOERR") /\ UNCHANGED data
  /\ UNCHANGED <<guest, mem, disk, request, next, off, result>>

ExecuteWrite ==
  /\ Executing(T_OUT)
  /\ data' = Staging(buffers)
  /\ pc' = "gather"
  /\ UNCHANGED <<guest, mem, disk, walking, request, next, off, status, result, calls>>

ExecuteFlush ==
  /\ Executing(T_FLUSH)
  /\ calls' = calls + 1
  /\ \E s \in {"OK", "IOERR"} : Respond(s)
  /\ UNCHANGED <<guest, mem, disk, request, copying, result>>

ExecuteUnsupported ==
  /\ pc = "execute" /\ type \notin {T_IN, T_OUT, T_FLUSH}
  /\ Respond("UNSUPP")
  /\ UNCHANGED <<guest, mem, disk, request, copying, result, calls>>

Buffer == buffers[next + 1]
Copying(step) == pc = step /\ next < Len(buffers)

\* It leaves its room in the staging buffer.
SkipAdvances ==
  /\ \/ Copying("deliver") /\ ~Buffer.write
     \/ Copying("gather") /\ Buffer.write
  /\ next' = next + 1 /\ off' = off + Buffer.len
  /\ UNCHANGED <<guest, mem, disk, pc, walking, request, data, status, result, calls>>

\* A buffer of the other direction takes no part.
SkipBuffer ==
  /\ \/ Copying("deliver") /\ ~Buffer.write
     \/ Copying("gather") /\ Buffer.write
  /\ next' = next + 1
  /\ UNCHANGED <<guest, mem, disk, pc, walking, request, data, off, status, result, calls>>

\* The range check before a buffer is copied.
Fits(d) == off + d.len <= Len(data)
CopyError == IF Fits(Buffer) THEN "IOERR" ELSE "UNSUPP"

\* Read-only buffers are written as well.
CopyToAnyBuffer ==
  /\ Copying("deliver")
  /\ Fits(Buffer) /\ Cells(Buffer) \subseteq Mapped
  /\ mem' = Stored(mem, Buffer.addr, SubSeq(data, off + 1, off + Buffer.len), Buffer.len)
  /\ next' = next + 1 /\ off' = off + Buffer.len
  /\ UNCHANGED <<guest, disk, pc, walking, request, data, status, result, calls>>

CopyToGuest ==
  /\ Copying("deliver") /\ Buffer.write
  /\ Fits(Buffer) /\ Cells(Buffer) \subseteq Mapped
  /\ mem' = Stored(mem, Buffer.addr, SubSeq(data, off + 1, off + Buffer.len), Buffer.len)
  /\ next' = next + 1 /\ off' = off + Buffer.len
  /\ UNCHANGED <<guest, disk, pc, walking, request, data, status, result, calls>>

\* A write to guest memory that fails may have written its beginning.
CopyToGuestFails ==
  /\ Copying("deliver") /\ Buffer.write
  /\ ~(Fits(Buffer) /\ Cells(Buffer) \subseteq Mapped)
  /\ \E n \in IF Fits(Buffer) THEN 0 .. Buffer.len ELSE {0} :
       /\ (Buffer.addr .. Buffer.addr + n - 1) \subseteq Mapped
       /\ mem' = Stored(mem, Buffer.addr, SubSeq(data, off + 1, off + n), n)
  /\ Respond(CopyError)
  /\ UNCHANGED <<guest, disk, request, copying, result, calls>>

CopyFromGuest ==
  /\ Copying("gather") /\ ~Buffer.write
  /\ Fits(Buffer) /\ Cells(Buffer) \subseteq Mapped
  /\ data' = Stored(data, off + 1, Contents(mem, Buffer), Buffer.len)
  /\ next' = next + 1 /\ off' = off + Buffer.len
  /\ UNCHANGED <<guest, mem, disk, pc, walking, request, status, result, calls>>

CopyFromGuestFails ==
  /\ Copying("gather") /\ ~Buffer.write
  /\ ~(Fits(Buffer) /\ Cells(Buffer) \subseteq Mapped)
  /\ Respond(CopyError)
  /\ UNCHANGED <<guest, mem, disk, request, copying, result, calls>>

Delivered ==
  /\ pc = "deliver" /\ next = Len(buffers)
  /\ Respond("OK")
  /\ UNCHANGED <<guest, mem, disk, request, copying, result, calls>>

\* A write that fails is tried again.
StoreRetried ==
  /\ pc = "gather" /\ next = Len(buffers)
  /\ calls < 2 /\ calls' = calls + 1
  /\ \/ UNCHANGED <<disk, pc, walking, status>>
     \/ /\ \E n \in Transfers(sector, Len(data)) : disk' = Stored(disk, sector + 1, data, n)
        /\ Respond("OK")
  /\ UNCHANGED <<guest, mem, request, copying, result>>

\* The backend gets the whole staging buffer, the part that no buffer filled as well;
\* how many bytes it wrote is not looked at.
StoreToBackend ==
  /\ pc = "gather" /\ next = Len(buffers)
  /\ calls' = calls + 1
  /\ \E n \in Transfers(sector, Len(data)), s \in {"OK", "IOERR"} :
       disk' = Stored(disk, sector + 1, data, n) /\ Respond(s)
  /\ UNCHANGED <<guest, mem, request, copying, result>>

----------------------------------------------------------------------------
(* write_status_byte, and the length of the used element. *)

WriteStatusByte(s) == mem' = [mem EXCEPT ![LastOf(walk).addr] = StatusByte(s)]
CanWriteStatus == outcome = "ended" /\ IsStatus(LastOf(walk)) /\ LastOf(walk).addr \in Mapped

WalkOver(p) == pc = p /\ outcome # "going"

\* Not truncated to the width of the field.
WholeLength(descs) == Total(descs)
UsedLength(descs) == Total(descs) % LenMod

\* add_used_buffer: without a status byte there is no used element.
Complete ==
  /\ WalkOver("complete")
  /\ pc' = "done"
  /\ IF CanWriteStatus
     THEN WriteStatusByte(status) /\ answer' = "used" /\ usedLen' = UsedLength(buffers)
     ELSE answer' = "dropped" /\ UNCHANGED <<mem, usedLen>>
  /\ UNCHANGED <<guest, disk, walking, request, copying, status, calls>>

\* The error branch: the used element comes when the loop is over, with length 0.
CompleteWithError ==
  /\ WalkOver("error")
  /\ pc' = "done"
  /\ IF CanWriteStatus THEN WriteStatusByte("IOERR") /\ status' = "IOERR"
     ELSE UNCHANGED <<mem, status>>
  /\ answer' = "used" /\ usedLen' = 0
  /\ UNCHANGED <<guest, disk, walking, request, copying, calls>>

----------------------------------------------------------------------------
(* The guest rewrites a descriptor while the device is at work. *)

Rewrite(i, d) ==
  /\ left > 0 /\ pc # "done"
  /\ table' = [table EXCEPT ![i] = d]
  /\ left' = left - 1
  /\ granted' = granted \cup WritableCells(table')
  /\ UNCHANGED <<before, mem, disk, pc, walking, request, copying, status, result, calls>>

Handler ==
  \/ ReadDesc \/ BadIndex
  \/ WalkFails \/ ParseHeader \/ ValidateLength \/ GetDataBuffers \/ GetStatusAddr
  \/ ExecuteRead \/ ExecuteWrite \/ ExecuteFlush \/ ExecuteUnsupported
  \/ SkipBuffer \/ CopyToGuest \/ CopyToGuestFails \/ Delivered
  \/ CopyFromGuest \/ CopyFromGuestFails \/ StoreToBackend
  \/ Complete \/ CompleteWithError

Next == Handler \/ \E r \in Rewrites : Rewrite(r[1], r[2])

Spec == Init /\ [][Next]_vars /\ WF_vars(Handler)

----------------------------------------------------------------------------
(* Types. *)

TypeOK ==
  /\ table \in [Index -> Desc] /\ mem \in [Mapped -> Nat] /\ disk \in Seq(Nat)
  /\ left \in 0 .. MaxRewrites
  /\ pc \in PC
  /\ walk \in Seq(Desc) /\ at \in Nat /\ outcome \in {"going", "ended", "failed"}
  /\ type \in Nat /\ sector \in Nat /\ buffers \in Seq(Desc)
  /\ data \in Seq(Nat) /\ next \in Nat /\ off \in Nat
  /\ status \in Status /\ answer \in {"none", "used", "dropped"}
  /\ usedLen \in 0 .. LenMod - 1
  /\ calls \in Nat
  /\ granted \subseteq Nat

----------------------------------------------------------------------------
(* What a request means: reference definitions over a table at rest. *)

\* The guest has not rewritten anything.
Steady == left = MaxRewrites

\* The ways through the table from the head to a descriptor without a successor that
\* take no descriptor twice.
PathsOf(t) ==
  {p \in UNION {[1 .. n -> Readable] : n \in 1 .. QueueSize} :
     /\ p[1] = RequestHead /\ ~t[p[Len(p)]].more
     /\ \A j, k \in DOMAIN p : p[j] = p[k] => j = k
     /\ \A k \in 1 .. Len(p) - 1 : t[p[k]].more /\ t[p[k]].next = p[k + 1]}

\* The descriptors on them: at most one chain.
ChainsOf == [t \in Tables |-> {[k \in DOMAIN p |-> t[p[k]]] : p \in PathsOf(t)}]

Answerable(c) == IsStatus(LastOf(c)) /\ LastOf(c).addr \in Mapped
Parses(c) ==
  /\ Len(c) >= MinChain
  /\ IsHeader(c[1]) /\ HeaderCells(c[1]) \subseteq Mapped
  /\ IsStatus(LastOf(c))

\* The data buffers of a chain, and where one lies in the data of its direction.
DataOf(c) == SubSeq(c, 2, Len(c) - 1)
OffsetOf(descs, k) == SizeUpTo(descs, {descs[k].write})[k - 1]

AskedType(c) == before.mem[c[1].addr]
AskedSector(c) == before.mem[c[1].addr + 1]

SourcesMapped(c) == \A d \in ToSet(DataOf(c)) : ~d.write => Cells(d) \subseteq Mapped

\* The kind of request in module BlkDevice, for a chain if there is one.
KindOf(chains) ==
  IF \A c \in chains : ~Answerable(c) /\ ~Parses(c) THEN "nostatus"
  ELSE LET c == CHOOSE c \in chains : TRUE
       IN  IF ~Answerable(c) THEN "unmapped"
           ELSE IF ~Parses(c) THEN "bad"
           ELSE IF AskedType(c) \notin {T_IN, T_OUT, T_FLUSH} THEN "unsupp"
           ELSE IF AskedType(c) = T_OUT /\ ~SourcesMapped(c) THEN "nodata"
           ELSE "ok"

\* What the driver sees of the request, as the block service has it.
Reported ==
  LET chains  == ChainsOf[table]
      done    == answer = "used"
      written == \E c \in chains : Answerable(c) /\ mem[LastOf(c).addr] = StatusByte(status)
  IN  [h \in {RequestHead} |->
        [state  |-> IF done THEN "done" ELSE "pending",
         kind   |-> KindOf(chains),
         status |-> IF done /\ written THEN status ELSE "none",
         calls  |-> IF done THEN calls ELSE 0]]

Service == INSTANCE BlkService
             WITH Heads <- {RequestHead}, Kinds <- {"ok"}, req <- Reported

----------------------------------------------------------------------------
(* Properties of a request whose descriptors stay as they are. *)

\* Each of the five walks returns the chain that the table describes, and fails
\* exactly if there is none: it ends early, loops, leaves the table or meets a
\* descriptor that cannot be read (follow_chain).
WalkIsChain ==
  Steady /\ pc \in Walking /\ outcome # "going"
    => ChainsOf[table] = IF outcome = "ended" THEN {walk} ELSE {}

\* The request is answered as module BlkService allows for its kind, with that number
\* of backend calls, and dropped exactly if its status byte cannot be written: what
\* BlkDevice makes of a kind is what the code makes of the chain
\* (process_descriptor_chain, the error branch of process_queue_requests).
AnswersAsService ==
  [][Steady' /\ answer' # answer
       => IF KindOf(ChainsOf[table]) = "unmapped" THEN answer' = "dropped"
          ELSE answer' = "used" /\ Service!Complete({RequestHead})]_result

\* The disk changes only where a write asks for it, and there to a first part of the
\* request's data, followed by zeros where buffers take no part.
DiskIntact(c) ==
  IF Parses(c) /\ AskedType(c) = T_OUT /\ SourcesMapped(c)
  THEN LET descs == DataOf(c)
           from  == AskedSector(c)
       IN  \E n \in Transfers(from, Total(descs)) :
             /\ \A k \in DOMAIN descs : ~descs[k].write =>
                  \A i \in 1 .. descs[k].len :
                    LET p == OffsetOf(descs, k) + i
                    IN  p <= n => disk[from + p] = before.mem[descs[k].addr + i - 1]
             /\ \A p \in SizeOf(descs, {FALSE}) + 1 .. n : disk[from + p] = 0
             /\ \A p \in DOMAIN before.disk \ (from + 1 .. from + n) :
                  disk[p] = before.disk[p]
  ELSE disk = before.disk

\* No two buffers for the device to write, the status byte's among them, share a cell.
DestsApart(c) ==
  \A j, k \in 2 .. Len(c) :
    j # k /\ c[j].write /\ c[k].write => Cells(c[j]) \cap Cells(c[k]) = {}

\* A read that succeeds leaves in its buffers a first part of what is on the disk and
\* zeros after it, never what the buffers held before, and no other memory is written
\* than the status byte.
MemoryIntact(c) ==
  LET descs   == DataOf(c)
      reading == Parses(c) /\ AskedType(c) = T_IN
      dests   == UNION {Cells(d) : d \in {d \in ToSet(descs) : d.write}}
  IN  /\ \A a \in Mapped \ ((IF reading THEN dests ELSE {}) \cup {LastOf(c).addr}) :
           mem[a] = before.mem[a]
      /\ reading /\ status = "OK" /\ DestsApart(c)
           => \E n \in Transfers(AskedSector(c), Total(descs)) :
                \A k \in DOMAIN descs : descs[k].write =>
                  \A i \in 1 .. descs[k].len :
                    LET p == OffsetOf(descs, k) + i
                    IN  mem[descs[k].addr + i - 1]
                          = IF p <= n THEN before.disk[AskedSector(c) + p] ELSE 0

\* When a request is over, its data is where it belongs and nothing else has changed;
\* a head without a chain changes nothing (handle_read_request_guest_memory,
\* handle_write_request_guest_memory, write_status_byte).
DataIntact ==
  Steady /\ pc = "done" =>
    /\ \A c \in ChainsOf[table] : DiskIntact(c) /\ MemoryIntact(c)
    /\ ChainsOf[table] = {} => mem = before.mem /\ disk = before.disk

----------------------------------------------------------------------------
(* Properties that hold whatever the guest rewrites, and when. *)

\* A walk takes at most one descriptor more than the table has (follow_chain tests
\* the bound after it).
WalkBounded == Len(walk) <= QueueSize + 1

\* The staging buffer always has room for the next buffer: the slices of
\* handle_read_request_guest_memory and handle_write_request_guest_memory stay within
\* it and InvalidBufferSize does not occur, which would report as unsupported a request
\* that has reached the backend.
BuffersFit ==
  /\ \/ Copying("deliver") /\ Buffer.write
     \/ Copying("gather") /\ ~Buffer.write
     => Fits(Buffer)
  /\ status = "UNSUPP" => calls = 0

\* A request reaches the backend at most once, and is reported as done only if it has
\* (execute_guest_memory_request).
OneCall == calls <= 1 /\ (status = "OK" => calls = 1)

\* The device writes only memory that some device-writable descriptor of the table
\* names or has named (get_data_buffers, get_status_addr, write_status_byte).
WritesGranted ==
  [][\A a \in Mapped : mem'[a] # mem[a] => a \in granted]_vars

\* The handler always comes to the end of the request, however the chain loops.
Answered == <>(pc = "done")
=============================================================================
