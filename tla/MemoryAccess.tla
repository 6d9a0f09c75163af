---------------------------- MODULE MemoryAccess ----------------------------
(***************************************************************************)
(* Loads, stores and the four block instructions, from the virtual address *)
(* to the byte: alignment, the program's own text, the page tables, and    *)
(* what lies at the physical address - RAM, VRAM behind the GPU's gate, a  *)
(* device register or nothing.  A block instruction goes a page at a time, *)
(* and between two pages of it the kernel may take a page away; a page     *)
(* fault brings it back and returns to the instruction.                    *)
(*                                                                         *)
(* An address space of few small pages stands for the 4 GiB.  A word is a  *)
(* page here, so a 64-bit access always reaches two.                       *)
(***************************************************************************)
EXTENDS Sequences, SequencesExt, FiniteSetsExt, Integers

CONSTANTS
  PageSize,    \* bytes in a page
  Kinds,       \* what each physical page is: "low", "ram", "none", "vram", "device"
  Fixed,       \* the virtual pages no table describes: they are physical
  TextStart, TextEnd,   \* the program's own text, in virtual addresses
  Undeclared,  \* the device words no register is at
  Contents,    \* the bytes there are at first
  Jobs,        \* the instructions that may run, with their registers
  Maps,        \* where the kernel keeps each virtual page
  MaxSteals    \* how often the kernel takes a page away

ASSUME AccessAssumption == PageSize \in Nat \ {0} /\ MaxSteals \in Nat

(* Pages and frames are numbered from 0; the registers that are addresses   *)
(* hold addresses.                                                          *)
BlockOps == {"mcpy", "mset", "mcmp", "mscan"}
SpaceOf(map) == PageSize * Cardinality(DOMAIN map)
ASSUME MapsAssumption ==
  \A m \in Maps : LET n == Cardinality(DOMAIN m) IN n \in Nat \ {0} /\ m \in [0..n - 1 -> 0..n - 1]
ASSUME JobsAssumption ==
  \A j \in Jobs :
    /\ j \in [op : {"load", "store"} \cup BlockOps, at : Nat, size : {1, 2, 4, 8}, signed : BOOLEAN, value : Seq(Nat),
              rd : Nat, rs : Nat, rt : Nat, flags : [z : BOOLEAN, c : BOOLEAN, s : BOOLEAN, v : BOOLEAN], state : {"running"}]
    /\ j.op = "store" => Len(j.value) = j.size
    /\ \A m \in Maps : {j.at, j.rd} \cup (IF j.op \in {"mcpy", "mcmp"} THEN {j.rs} ELSE {}) \subseteq 0..SpaceOf(m) - 1

VARIABLES
  job,         \* the instruction, its registers, and what it has loaded
  bytes,       \* what the RAM and the VRAM hold, by physical address
  table,       \* the page table: "absent", "read" or "write" for each virtual page
  home,        \* the frame of each virtual page
  gate,        \* whether the GPU admits the CPU's stores to the VRAM
  strict,      \* whether a device register nobody declares is a fault
  marks,       \* the VRAM pages marked as written
  bus,         \* the accesses the devices have seen
  faulted,       \* the last fault: its vector, address, access, size and reason
  steals,
  start        \* how it all began

accessVars == <<job, bytes, table, home, gate, strict, marks, bus, faulted, steals, start>>

VirtualPages == DOMAIN home
Page(a) == a \div PageSize
Kind(p) == Kinds[Page(p)]
AddressSpace == SpaceOf(home)
Wrap(a) == a % AddressSpace

NoFault == [vector |-> "none", at |-> 0, access |-> "read", size |-> 0, reason |-> "none", times |-> 0]
Fault(vector, at, access, size, reason) ==
  [vector |-> vector, at |-> at, access |-> access, size |-> size, reason |-> reason, times |-> 1]

-----------------------------------------------------------------------------
(* From an address to what lies there.                                      *)

Present(a, access) ==
  \/ Page(a) \in Fixed
  \/ table[Page(a)] = "write" \/ (table[Page(a)] = "read" /\ access = "read")
Physical(a) == IF Page(a) \in Fixed THEN a ELSE home[Page(a)] * PageSize + (a % PageSize)
ReachesDevice(a) ==
  Kind(Physical(a)) = "device" /\ Present(a, "read")

Aligned(a, size) == a % (IF size = 8 THEN 4 ELSE size) = 0
(* The vectors, the BIOS and the program's own text are never stored to.    *)
Writable(a, size) == ~(Kinds[0] = "low" /\ a < PageSize) /\ ~(a < TextEnd /\ a + size > TextStart)

(* What stops an access of `size` bytes; NoFault when nothing does.         *)
Translating(a, access) ==
  IF Present(a, access) THEN NoFault ELSE Fault("PageFault", a, access, 0, "none")
Reaching(a, access, size) ==
  LET p == Physical(a)
  IN CASE Kind(p) = "none" -> Fault("MemoryFault", a, access, size, "unbacked")
       [] Kind(p) = "device" /\ size # 4 -> Fault("MemoryFault", a, access, size, "mmioWidth")
       [] Kind(p) = "device" /\ strict /\ p \in Undeclared -> Fault("MemoryFault", a, access, size, "mmioUndeclared")
       [] OTHER -> NoFault
FirstOf(faults) ==
  LET raised == {k \in DOMAIN faults : faults[k].vector # "none"} IN IF raised = {} THEN NoFault ELSE faults[Min(raised)]
Accessing(a, access, size) == FirstOf(<<Translating(a, access), IF Present(a, access) THEN Reaching(a, access, size) ELSE NoFault>>)
Aligning(a, access, size) ==
  IF Aligned(a, size) THEN NoFault
  ELSE Fault("AlignmentFault", a, access, size, IF ReachesDevice(a) THEN "mmioWidth" ELSE "alignment")
Storing(a, size) == IF Writable(a, size) THEN NoFault ELSE Fault("MemoryFault", a, "write", size, "none")

(* The bytes at a physical address: below the RAM a program reaches, zero.  *)
ByteAt(m, p) == IF Kind(p) \in {"ram", "vram"} THEN m[p] ELSE 0
BytesAt(m, p, size) == [k \in 1..size |-> ByteAt(m, p + k - 1)]
(* A store there: dropped below the RAM, and by a gate that is closed.      *)
Keeps(p) == Kind(p) = "ram" \/ (Kind(p) = "vram" /\ gate)
Stored(m, p, data) == [q \in DOMAIN m |-> IF Keeps(q) /\ q \in p..p + Len(data) - 1 THEN data[q - p + 1] ELSE m[q]]
Marked(p, size) == {Page(q) : q \in {x \in p..p + size - 1 : Kind(x) = "vram" /\ Keeps(x)}}

-----------------------------------------------------------------------------
(* A load or a store of 1, 2, 4 or, in two halves, 8 bytes.                 *)

SignBit == 128
Extended(data, signed) ==
  LET fill == IF signed /\ Last(data) >= SignBit THEN 255 ELSE 0
  IN [k \in 1..(IF Len(data) > 4 THEN 8 ELSE 4) |-> IF k <= Len(data) THEN data[k] ELSE fill]
DeviceAccess(a, access) == IF Kind(Physical(a)) = "device" THEN <<[access |-> access, at |-> Physical(a)]>> ELSE <<>>

RaiseLoadingZero(x) ==   \* mutant of Raise: the destination takes what a failed read returns
  /\ faulted' = [x EXCEPT !.times = IF faulted.vector = "none" THEN 1 ELSE faulted.times + 1]
  /\ job' = [job EXCEPT !.state = IF x.vector = "PageFault" THEN "faulted" ELSE "stopped", !.value = <<0, 0, 0, 0>>]
Raise(x) ==
  /\ faulted' = [x EXCEPT !.times = IF faulted.vector = "none" THEN 1 ELSE faulted.times + 1]
  /\ job' = [job EXCEPT !.state = IF x.vector = "PageFault" THEN "faulted" ELSE "stopped"]
Finish(j) == job' = [j EXCEPT !.state = "done"] /\ UNCHANGED faulted

Halves(a, size) == IF size = 8 THEN <<a, Wrap(a + 4)>> ELSE <<a>>
Part(size) == IF size = 8 THEN 4 ELSE size

(* How many halves, of two at most, an access reaches before one faults, and *)
(* what the devices see of them.                                            *)
Clear(parts, access, n) ==
  IF Accessing(parts[1], access, n) # NoFault THEN 0
  ELSE IF Len(parts) = 1 \/ Accessing(parts[2], access, n) # NoFault THEN 1 ELSE 2
Reported(parts, reached, access) ==
  CASE reached = 0 -> <<>> [] reached = 1 -> DeviceAccess(parts[1], access)
    [] reached = 2 -> DeviceAccess(parts[1], access) \o DeviceAccess(parts[2], access)
Stopping(before, parts, access, n) == FirstOf(before \o [k \in 1..Len(parts) |-> Accessing(parts[k], access, n)])

Load ==
  /\ job.op = "load" /\ job.state = "running"
  /\ LET parts == Halves(job.at, job.size)
         n == Part(job.size)
         why == Stopping(<<Aligning(job.at, "read", job.size)>>, parts, "read", n)
         reached == IF Aligned(job.at, job.size) THEN Clear(parts, "read", n) ELSE 0
         data == FlattenSeq([k \in 1..Len(parts) |-> BytesAt(bytes, Physical(parts[k]), n)])
     IN /\ bus' = bus \o Reported(parts, reached, "read")
        /\ IF why = NoFault THEN Finish([job EXCEPT !.value = Extended(data, job.signed)]) ELSE Raise(why)
  /\ UNCHANGED <<bytes, table, home, gate, strict, marks, steals, start>>

(* A fault on the second half leaves the first stored.                      *)
Store ==
  /\ job.op = "store" /\ job.state = "running"
  /\ LET parts == Halves(job.at, job.size)
         n == Part(job.size)
         before == <<Aligning(job.at, "write", job.size), Storing(job.at, job.size)>>
         reached == IF FirstOf(before) = NoFault THEN Clear(parts, "write", n) ELSE 0
         why == Stopping(before, parts, "write", n)
         Half(m, k) == Stored(m, Physical(parts[k]), SubSeq(job.value, (k - 1) * n + 1, k * n))
     IN /\ bytes' = CASE reached = 0 -> bytes [] reached = 1 -> Half(bytes, 1) [] reached = 2 -> Half(Half(bytes, 1), 2)
        /\ marks' = marks \cup UNION {Marked(Physical(parts[k]), n) : k \in 1..reached}
        /\ bus' = bus \o Reported(parts, reached, "write")
        /\ IF why = NoFault THEN Finish(job) ELSE Raise(why)
  /\ UNCHANGED <<table, home, gate, strict, steals, start>>

-----------------------------------------------------------------------------
(* The block instructions, a chunk of at most a page a step: rd and rs are  *)
(* addresses, or rs a byte, and rt what is left.                            *)

Left(a) == PageSize - (a % PageSize)
Chunk(a, b) == Min({job.rt, PageSize, Left(a), Left(b)})
Refusing(a, access, n) ==
  IF Kind(Physical(a)) = "device" THEN Fault("MemoryFault", a, access, n, "mmioBlock") ELSE NoFault
(* A chunk nothing backs goes a byte at a time and stops at the first.      *)
Backing(a, access) ==
  IF Kind(Physical(a)) = "none" THEN Fault("MemoryFault", a, access, 1, "unbacked") ELSE NoFault

Spans(p) == Kind(p) \in {"ram", "vram"}
ByteLoop(m, to, from, n) ==
  LET copy[k \in 0..n] == IF k = 0 THEN m ELSE Stored(copy[k - 1], to + k - 1, <<ByteAt(copy[k - 1], from + k - 1)>>)
  IN copy[n]
(* Lowest byte first: where the destination lies above the source and over  *)
(* it the bytes just written repeat; anything else goes at once.            *)
CopyAtOnce(m, to, from, n) == Stored(m, to, BytesAt(m, from, n))   \* mutant of CopyChunk: overlaps as in memmove
CopyChunk(m, to, from, n) ==
  IF Spans(to) /\ Spans(from) /\ ~(to > from /\ to < from + n)
    THEN Stored(m, to, BytesAt(m, from, n))
    ELSE ByteLoop(m, to, from, n)

Advanced(j, n) == [j EXCEPT !.rd = Wrap(@ + n), !.rs = IF j.op \in {"mcpy", "mcmp"} THEN Wrap(@ + n) ELSE @, !.rt = @ - n]
Proceed(j) == IF j.rt = 0 THEN Finish(j) ELSE job' = j /\ UNCHANGED faulted

CopyBlock ==
  /\ job.op = "mcpy" /\ job.state = "running" /\ job.rt > 0
  /\ LET n == Chunk(job.rd, job.rs)
         both == Present(job.rs, "read") /\ Present(job.rd, "write")
         why == FirstOf(<<Storing(job.rd, n), Translating(job.rs, "read"), Translating(job.rd, "write")>> \o
                        (IF both THEN <<Refusing(job.rs, "read", n), Refusing(job.rd, "write", n),
                                        Backing(job.rs, "read"), Backing(job.rd, "write")>> ELSE <<>>))
     IN IF why = NoFault
          THEN /\ bytes' = CopyChunk(bytes, Physical(job.rd), Physical(job.rs), n)
               /\ marks' = marks \cup Marked(Physical(job.rd), n)
               /\ Proceed(Advanced(job, n))
          ELSE Raise(why) /\ UNCHANGED <<bytes, marks>>
  /\ UNCHANGED <<table, home, gate, strict, bus, steals, start>>

SetBlock ==
  /\ job.op = "mset" /\ job.state = "running" /\ job.rt > 0
  /\ LET n == Chunk(job.rd, job.rd)
         why == FirstOf(<<Storing(job.rd, n), Translating(job.rd, "write")>> \o
                        (IF Present(job.rd, "write") THEN <<Refusing(job.rd, "write", n), Backing(job.rd, "write")>> ELSE <<>>))
     IN IF why = NoFault
          THEN /\ bytes' = Stored(bytes, Physical(job.rd), [k \in 1..n |-> job.rs])
               /\ marks' = marks \cup Marked(Physical(job.rd), n)
               /\ Proceed(Advanced(job, n))
          ELSE Raise(why) /\ UNCHANGED <<bytes, marks>>
  /\ UNCHANGED <<table, home, gate, strict, bus, steals, start>>

Alike == [z |-> TRUE, c |-> FALSE, s |-> FALSE, v |-> FALSE]
Below(x, y) == [z |-> FALSE, c |-> x < y, s |-> x < y, v |-> FALSE]
(* How far two chunks are the same, or how far a byte is not found.         *)
Reach(n, stops) == Min(stops \cup {n})

(* Both bytes of a pair are read before the loop looks at whether the first *)
(* faulted: with neither backed the handler is entered twice.               *)
CompareBlocks ==
  /\ job.op = "mcmp" /\ job.state = "running" /\ job.rt > 0
  /\ LET n == Chunk(job.rd, job.rs)
         both == Present(job.rd, "read") /\ Present(job.rs, "read")
         why == FirstOf(<<Translating(job.rd, "read"), Translating(job.rs, "read")>> \o
                        (IF both THEN <<Refusing(job.rd, "read", n), Refusing(job.rs, "read", n),
                                        Backing(job.rs, "read"), Backing(job.rd, "read")>> ELSE <<>>))
         twice == both /\ why.reason = "unbacked" /\ Backing(job.rd, "read") # NoFault /\ Backing(job.rs, "read") # NoFault
         X(k) == ByteAt(bytes, Physical(job.rd) + k)
         Y(k) == ByteAt(bytes, Physical(job.rs) + k)
         i == Reach(n, {k \in 0..n - 1 : X(k) # Y(k)})
     IN CASE why # NoFault -> /\ faulted' = [why EXCEPT !.times = faulted.times + (IF twice THEN 2 ELSE 1)]
                              /\ job' = [job EXCEPT !.state = IF why.vector = "PageFault" THEN "faulted" ELSE "stopped"]
          [] why = NoFault /\ i < n -> Finish([Advanced(job, i) EXCEPT !.flags = Below(X(i), Y(i))])
          [] OTHER -> Proceed([Advanced(job, n) EXCEPT !.flags = IF job.rt = n THEN Alike ELSE @])
  /\ UNCHANGED <<bytes, table, home, gate, strict, marks, bus, steals, start>>

ScanBlock ==
  /\ job.op = "mscan" /\ job.state = "running" /\ job.rt > 0
  /\ LET n == Chunk(job.rd, job.rd)
         why == FirstOf(<<Translating(job.rd, "read")>> \o
                        (IF Present(job.rd, "read") THEN <<Refusing(job.rd, "read", n), Backing(job.rd, "read")>> ELSE <<>>))
         i == Reach(n, {k \in 0..n - 1 : ByteAt(bytes, Physical(job.rd) + k) = job.rs})
     IN CASE why # NoFault -> Raise(why)
          [] why = NoFault /\ i < n -> Finish([Advanced(job, i) EXCEPT !.flags.z = FALSE])
          [] OTHER -> Proceed([Advanced(job, n) EXCEPT !.flags.z = IF job.rt = n THEN TRUE ELSE @])
  /\ UNCHANGED <<bytes, table, home, gate, strict, marks, bus, steals, start>>

(* A count of zero does nothing, and compares equal.                        *)
Nothing ==
  /\ job.op \in BlockOps /\ job.state = "running" /\ job.rt = 0
  /\ Finish(CASE job.op = "mcmp" -> [job EXCEPT !.flags = Alike]
              [] job.op = "mscan" -> [job EXCEPT !.flags.z = TRUE] [] OTHER -> job)
  /\ UNCHANGED <<bytes, table, home, gate, strict, marks, bus, steals, start>>

-----------------------------------------------------------------------------
(* The program's own kernel: the page fault's handler maps the page, for    *)
(* writing when it was a store, and returns to the instruction; between two *)
(* instructions, or two chunks of one, it may take a page away.             *)

Repair ==
  /\ job.state = "faulted"
  /\ table' = [table EXCEPT ![Page(faulted.at)] = IF faulted.access = "write" THEN "write" ELSE "read"]
  /\ job' = [job EXCEPT !.state = "running"] /\ faulted' = NoFault
  /\ UNCHANGED <<bytes, home, gate, strict, marks, bus, steals, start>>

Steal ==
  /\ job.state = "running" /\ steals < MaxSteals
  /\ \E p \in VirtualPages \ Fixed :
       /\ table[p] # "absent" /\ table' = [table EXCEPT ![p] = "absent"]
  /\ steals' = steals + 1
  /\ UNCHANGED <<job, bytes, home, gate, strict, marks, bus, faulted, start>>

AccessInit ==
  /\ job \in Jobs /\ home \in Maps /\ gate \in BOOLEAN /\ strict \in BOOLEAN
  /\ bytes = [p \in {q \in 0..AddressSpace - 1 : Spans(q)} |-> Contents[1 + p]]
  /\ \E access \in {"absent", "read", "write"} : table = [p \in VirtualPages |-> access]
  /\ marks = {} /\ bus = <<>> /\ faulted = NoFault /\ steals = 0
  /\ start = [job |-> job, bytes |-> bytes]

AccessAt == Load \/ Store \/ CopyBlock \/ SetBlock \/ CompareBlocks \/ ScanBlock \/ Nothing \/ Repair \/ Steal

AccessSpec == AccessInit /\ [][AccessAt]_accessVars

-----------------------------------------------------------------------------
(* Properties.                                                              *)

Gone == start.job.rt - job.rt
FromVirtual(m, a) == ByteAt(m, Physical(Wrap(a)))
LoopTo(n) ==
  LET from == start.job.rs
      to == start.job.rd
      loop[k \in 0..n] ==
        IF k = 0 THEN start.bytes
        ELSE Stored(loop[k - 1], Physical(Wrap(to + k - 1)),
                    <<IF job.op = "mset" THEN from ELSE FromVirtual(loop[k - 1], from + k - 1)>>)
  IN loop[n]
(* Whatever faults and however often it is interrupted, a block instruction *)
(* has done what a loop over single bytes would have after as many of them  *)
(* as its registers say, and its end sets the flags of that loop.           *)
BlockIsByteLoop ==
  job.op \in BlockOps =>
    LET Stops(k) == IF job.op = "mcmp" THEN FromVirtual(bytes, start.job.rd + k) # FromVirtual(bytes, start.job.rs + k)
                    ELSE FromVirtual(bytes, start.job.rd + k) = job.rs
        left == FromVirtual(bytes, job.rd)
        right == FromVirtual(bytes, job.rs)
    IN /\ job.rd = Wrap(start.job.rd + Gone)
       /\ job.rs = IF job.op \in {"mcpy", "mcmp"} THEN Wrap(start.job.rs + Gone) ELSE start.job.rs
       /\ bytes = IF job.op \in {"mcpy", "mset"} THEN LoopTo(Gone) ELSE start.bytes
       /\ job.op \in {"mcmp", "mscan"} => \A k \in 0..Gone - 1 : ~Stops(k)
       /\ job.state = "done" =>
            CASE job.op \in {"mcpy", "mset"} -> job.rt = 0 /\ job.flags = start.job.flags
              [] job.op = "mscan" -> job.flags.z = (job.rt = 0) /\ (job.rt > 0 => Stops(Gone))
              [] job.op = "mcmp" -> /\ job.flags.z = (job.rt = 0) /\ (job.rt > 0 => Stops(Gone))
                                    /\ job.rt > 0 => job.flags.c = (left < right) /\ job.flags.s = (left < right)

(* A faulting access leaves the registers, the flags, the memory and the    *)
(* devices as they were, so that its handler may run it again; only the     *)
(* second half of a 64-bit one may find the first half gone through.        *)
FaultsLeaveNoTrace ==
  [][job.state = "running" /\ job'.state \in {"faulted", "stopped"} =>
       /\ [job' EXCEPT !.state = "running"] = job
       /\ \/ bytes' = bytes /\ bus' = bus /\ marks' = marks
          \/ job.size = 8 /\ faulted'.at = Wrap(job.at + 4) /\ job.op \in {"load", "store"}]_accessVars

(* The VRAM a page has never been marked for is as it began: what keeps     *)
(* copies of the VRAM looks at the marks alone.                             *)
UnmarkedIsUntouched ==
  \A p \in DOMAIN bytes : Kind(p) = "vram" /\ bytes[p] # start.bytes[p] => Page(p) \in marks

(* Programs find in memory what their loads, stores and blocks put there,   *)
(* and so do the host's copies of the VRAM.                                 *)
AccessesAreSound == BlockIsByteLoop /\ UnmarkedIsUntouched
=============================================================================
