------------------------------ MODULE Storage -------------------------------
(* The media of the machine: the disk, which is one image behind a host      *)
(* file, and the ports the host plugs media into from its own thread while   *)
(* the program runs.  A sector is one value; a buffer in RAM is one sector.  *)
EXTENDS Integers, Sequences, SequencesExt, FiniteSets

CONSTANTS
  Ports,        \* 0..n
  Sectors,      \* of the media there are
  Sizes2,       \* sizes of the host files there are when they are opened
  Contents,     \* what a sector may hold
  MaxEvents,    \* events the host may still cause: bounds the queue
  MaxTransfers  \* transfers the program may still ask for

ASSUME StorageAssumption ==
  /\ 0 \in Ports /\ Ports \subseteq Nat /\ Sectors \in Nat \ {0} /\ Sizes2 \subseteq Nat
  /\ 0 \in Contents /\ -1 \notin Contents   \* which is the mark of no file

VARIABLES
  disk,     \* [path, image, dirty, status, sector]
  diskFile, \* what the host file of the disk holds, or Absent
  ports,    \* [present, kind, protected, backed, image, dirty] of each
  files,    \* what the host file of each port's medium holds
  events,   \* the queue the program reads
  portReg,  \* [selected, sector, error]: the registers of the ports
  hostDoes, \* the host's thread: "idle", "pushed" (an event queued and its interrupt not yet raised)
  raised,   \* the interrupt is pending: raises of it are not counted
  handler,  \* the program's handler: "idle" or "reading"
  lastRead,     \* the last the program has read of each port, for the properties
  passedOver, \* a reset of the machine or a handler that stops early has left events behind, for the properties
  ramValue, \* the buffer in RAM
  written,  \* what the program has stored in the medium of each port, [image, backed], for the properties
  refusals, \* media the host's file system has failed, for the properties
  quota     \* [events, transfers] left

storageVars == <<disk, diskFile, ports, files, events, portReg, hostDoes, raised, handler, lastRead, passedOver, ramValue, written, refusals, quota>>

Absent == <<-1>>   \* no such file; <<>> is one that was cut short
Blank(n) == [s \in 1..n |-> 0]

-----------------------------------------------------------------------------
(* The disk.  The host's file system may refuse a read or a write.           *)

\* A short file is padded, an empty or absent one is a new disk of the size asked for.
Opened(content) == IF content \in {Absent, <<>>} THEN Blank(Sectors) ELSE content
DiskOpen(looks, reads) ==
  /\ ~disk.path
  /\ IF looks /\ (diskFile = Absent \/ reads)
     THEN disk' = [disk EXCEPT !.path = TRUE, !.image = Opened(diskFile), !.status = "ready", !.dirty = FALSE]
     ELSE disk' = disk
  /\ UNCHANGED <<diskFile, ports, files, events, portReg, hostDoes, raised, handler, lastRead, passedOver, ramValue, written, quota, refusals>>

\* The flush of the command and of the end: it truncates the file, writes it and says how
\* that went.  A write that fails leaves the file short and the disk dirty.
(* Mutant: the disk is taken for clean whatever the host said. *)
FlushOutcomesBlind(d, f) ==
  IF ~d.path \/ ~d.dirty THEN {[d |-> d, f |-> f, ok |-> TRUE]}
  ELSE {[d |-> d, f |-> f, ok |-> FALSE], [d |-> [d EXCEPT !.dirty = FALSE], f |-> <<>>, ok |-> TRUE],
        [d |-> [d EXCEPT !.dirty = FALSE], f |-> d.image, ok |-> TRUE]}
FlushOutcomes(d, f) ==
  IF ~d.path \/ ~d.dirty THEN {[d |-> d, f |-> f, ok |-> TRUE]}
  ELSE {[d |-> d, f |-> f, ok |-> FALSE], [d |-> d, f |-> <<>>, ok |-> FALSE],
        [d |-> [d EXCEPT !.dirty = FALSE], f |-> d.image, ok |-> TRUE]}
DiskFlush ==
  /\ \E o \in FlushOutcomes(disk, diskFile) :
       disk' = [o.d EXCEPT !.status = IF o.ok THEN "ready" ELSE "error"] /\ diskFile' = o.f
  /\ UNCHANGED <<ports, files, events, portReg, hostDoes, raised, handler, lastRead, passedOver, ramValue, written, quota, refusals>>

DiskSector(s) ==
  /\ disk' = [disk EXCEPT !.sector = s, !.status = IF s < Len(disk.image) THEN "ready" ELSE "error"]
  /\ UNCHANGED <<diskFile, ports, files, events, portReg, hostDoes, raised, handler, lastRead, passedOver, ramValue, written, quota, refusals>>

Spend == quota.transfers > 0 /\ quota' = [quota EXCEPT !.transfers = @ - 1]
\* Nothing is moved when nothing was asked for; a sector outside the disk, more than a
\* sector, or an address outside RAM is an error.
Refused2(sector, image, length, inRam) == sector >= Len(image) \/ length > 1 \/ ~inRam
DiskTransfer(toRam, length, inRam) ==
  /\ Spend
  /\ IF length = 0 THEN UNCHANGED <<disk, ramValue>>
     ELSE IF Refused2(disk.sector, disk.image, length, inRam)
     THEN disk' = [disk EXCEPT !.status = "error"] /\ UNCHANGED ramValue
     ELSE IF toRam THEN disk' = [disk EXCEPT !.status = "ready"] /\ ramValue' = disk.image[disk.sector + 1]
     ELSE /\ disk' = [disk EXCEPT !.status = "ready", !.image[disk.sector + 1] = ramValue, !.dirty = TRUE]
          /\ UNCHANGED ramValue
  /\ UNCHANGED <<diskFile, ports, files, events, portReg, hostDoes, raised, handler, lastRead, passedOver, written, refusals>>

-----------------------------------------------------------------------------
(* The ports, the host's side.  Under the lock but for the interrupt.        *)

Medium(content) == IF content = Absent THEN Blank(Sectors) ELSE content

Empty == [present |-> FALSE, kind |-> "none", protected |-> FALSE, backed |-> FALSE, image |-> <<>>, dirty |-> FALSE]
Spare == quota.events > 0
Used  == quota' = [quota EXCEPT !.events = @ - 1]

\* A medium from a host file (backed) or from memory: a second one is refused, a missing
\* file is a new storage medium and no cartridge.
Attach(p, kind, protect, backed) ==
  LET content == IF backed THEN files[p] ELSE Absent
  IN  /\ hostDoes = "idle" /\ Spare /\ ~ports[p].present
      /\ kind = "cartridge" => content \notin {Absent, <<>>}
      /\ ports' = [ports EXCEPT ![p] = [present |-> TRUE, kind |-> kind, protected |-> protect \/ kind = "cartridge",
                                        backed |-> backed, image |-> Medium(content), dirty |-> FALSE]]
      /\ written' = [written EXCEPT ![p] = [image |-> Medium(content), backed |-> backed]]
      /\ events' = Append(events, [port |-> p, what |-> "connected"])
      /\ hostDoes' = "pushed" /\ Used
      /\ UNCHANGED <<disk, diskFile, files, portReg, raised, handler, lastRead, passedOver, ramValue, refusals>>

\* What a flush may leave: a file that does not open is left as it was and the port dirty;
\* one whose write fails is short, and nobody looks.
FlushPort(p) ==
  IF ~ports[p].present \/ ~ports[p].backed \/ ~ports[p].dirty
  THEN {[port |-> ports[p], file |-> files[p], ok |-> TRUE, host |-> TRUE]}
  ELSE {[port |-> ports[p], file |-> files[p], ok |-> FALSE, host |-> FALSE]}
       \cup {[port |-> [ports[p] EXCEPT !.dirty = FALSE], file |-> f, ok |-> TRUE, host |-> f # <<>>] : f \in {ports[p].image, <<>>}}
Refusal(p, o) == refusals' = IF o.host THEN refusals ELSE refusals \cup {p}

Pulled(p) ==
  /\ ports' = [ports EXCEPT ![p] = Empty]
  /\ \E o \in FlushPort(p) : files' = [files EXCEPT ![p] = o.file] /\ Refusal(p, o)
  /\ events' = Append(events, [port |-> p, what |-> "disconnected"])
Detach(p) ==
  /\ hostDoes = "idle" /\ Spare /\ ports[p].present
  /\ Pulled(p) /\ hostDoes' = "pushed" /\ Used
  /\ UNCHANGED <<disk, diskFile, portReg, raised, handler, lastRead, passedOver, ramValue, written>>

Protect(p, on) ==
  /\ hostDoes = "idle" /\ ports[p].present
  /\ ports' = [ports EXCEPT ![p].protected = on \/ ports[p].kind = "cartridge"]
  /\ UNCHANGED <<disk, diskFile, files, events, portReg, hostDoes, raised, handler, lastRead, passedOver, ramValue, written, quota, refusals>>

\* The lock is given back before the interrupt is raised.
HostRaises ==
  /\ hostDoes = "pushed"
  /\ hostDoes' = "idle" /\ raised' = TRUE /\ passedOver' = FALSE
  /\ UNCHANGED <<disk, diskFile, ports, files, events, portReg, handler, lastRead, ramValue, written, quota, refusals>>

-----------------------------------------------------------------------------
(* The ports, the program's side.                                            *)

PortSelect(p) ==
  /\ portReg' = IF p \in Ports THEN [portReg EXCEPT !.selected = p, !.error = FALSE] ELSE [portReg EXCEPT !.error = TRUE]
  /\ UNCHANGED <<disk, diskFile, ports, files, events, hostDoes, raised, handler, lastRead, passedOver, ramValue, written, quota, refusals>>
PortSector(s) ==
  /\ portReg' = [portReg EXCEPT !.sector = s]
  /\ UNCHANGED <<disk, diskFile, ports, files, events, hostDoes, raised, handler, lastRead, passedOver, ramValue, written, quota, refusals>>

Selected == ports[portReg.selected]
PortTransfer(toRam, length, inRam) ==
  LET wrong == ~Selected.present \/ (~toRam /\ Selected.protected)
               \/ (length > 0 /\ Refused2(portReg.sector, Selected.image, length, inRam))
      p == portReg.selected
  IN  /\ Spend
      /\ portReg' = [portReg EXCEPT !.error = wrong]
      /\ IF wrong \/ length = 0 THEN UNCHANGED <<ports, ramValue, written>>
         ELSE IF toRam THEN ramValue' = Selected.image[portReg.sector + 1] /\ UNCHANGED <<ports, written>>
         ELSE /\ ports' = [ports EXCEPT ![p] = [Selected EXCEPT !.image[portReg.sector + 1] = ramValue, !.dirty = TRUE]]
              /\ written' = [written EXCEPT ![p].image[portReg.sector + 1] = ramValue]
              /\ UNCHANGED ramValue
      /\ UNCHANGED <<disk, diskFile, files, events, hostDoes, raised, handler, lastRead, passedOver, refusals>>

PortFlush ==
  /\ \E o \in FlushPort(portReg.selected) :
       /\ ports' = [ports EXCEPT ![portReg.selected] = o.port]
       /\ files' = [files EXCEPT ![portReg.selected] = o.file]
       /\ portReg' = [portReg EXCEPT !.error = ~Selected.present \/ ~o.ok]
       /\ Refusal(portReg.selected, o)
  /\ UNCHANGED <<disk, diskFile, events, hostDoes, raised, handler, lastRead, passedOver, ramValue, written, quota>>

(* Mutant: the program is not told of what it did itself. *)
EjectSilently ==
  /\ Spare
  /\ IF Selected.present
     THEN Pulled(portReg.selected) /\ portReg' = [portReg EXCEPT !.error = FALSE] /\ Used /\ UNCHANGED raised
     ELSE portReg' = [portReg EXCEPT !.error = TRUE] /\ UNCHANGED <<ports, files, events, raised, quota, refusals>>
  /\ UNCHANGED <<disk, diskFile, hostDoes, handler, lastRead, passedOver, ramValue, written>>
\* From the machine's own thread: the event and the interrupt are one step.
Eject ==
  /\ Spare
  /\ IF Selected.present
     THEN Pulled(portReg.selected) /\ raised' = TRUE /\ passedOver' = FALSE /\ portReg' = [portReg EXCEPT !.error = FALSE] /\ Used
     ELSE portReg' = [portReg EXCEPT !.error = TRUE] /\ UNCHANGED <<ports, files, events, raised, passedOver, quota, refusals>>
  /\ UNCHANGED <<disk, diskFile, hostDoes, handler, lastRead, ramValue, written>>

\* The program's handler: it reads the event register as often as it likes, until there is
\* none or once for each interrupt.
Enter ==
  /\ raised /\ handler = "idle"
  /\ raised' = FALSE /\ handler' = "reading" /\ passedOver' = FALSE
  /\ UNCHANGED <<disk, diskFile, ports, files, events, portReg, hostDoes, lastRead, ramValue, written, quota, refusals>>
\* The event register takes the front of the queue, or says there is none.
ReadEvent ==
  /\ handler = "reading"
  /\ IF events = <<>> THEN UNCHANGED <<events, lastRead>>
     ELSE events' = Tail(events) /\ lastRead' = [lastRead EXCEPT ![Head(events).port] = Head(events).what]
  /\ UNCHANGED <<disk, diskFile, ports, files, portReg, hostDoes, raised, handler, passedOver, ramValue, written, quota, refusals>>
Return ==
  /\ handler = "reading"
  /\ handler' = "idle" /\ passedOver' = (events # <<>>)
  /\ UNCHANGED <<disk, diskFile, ports, files, events, portReg, hostDoes, raised, lastRead, ramValue, written, quota, refusals>>
\* The machine is reset: every pending interrupt is cleared and the program starts again;
\* the media, the queue and the registers stay, for neither device has a reset of its own.
MachineReset ==
  /\ raised' = FALSE /\ handler' = "idle" /\ passedOver' = (events # <<>>)
  /\ UNCHANGED <<disk, diskFile, ports, files, events, portReg, hostDoes, lastRead, ramValue, written, quota, refusals>>
SetRam(v) ==
  /\ v # ramValue /\ quota.transfers > 0
  /\ ramValue' = v
  /\ UNCHANGED <<disk, diskFile, ports, files, events, portReg, hostDoes, raised, handler, lastRead, passedOver, written, quota, refusals>>

-----------------------------------------------------------------------------
StorageStart ==
  /\ disk = [path |-> FALSE, image |-> Blank(Sectors), dirty |-> FALSE, status |-> "ready", sector |-> 0]
  /\ ports = [p \in Ports |-> Empty] /\ events = <<>> /\ portReg = [selected |-> 0, sector |-> 0, error |-> FALSE]
  /\ hostDoes = "idle" /\ raised = FALSE /\ handler = "idle" /\ ramValue = 0
  /\ lastRead = [p \in Ports |-> "disconnected"] /\ passedOver = FALSE
  /\ refusals = {} /\ written = [m \in Ports |-> [image |-> <<>>, backed |-> FALSE]]
StorageInit ==
  /\ StorageStart
  /\ \E n \in Sizes2 : diskFile \in {Absent, Blank(n)} /\ files = [p \in Ports |-> IF p = 0 THEN Blank(n) ELSE Absent]
  /\ quota = [events |-> MaxEvents, transfers |-> MaxTransfers]
StorageIdle == StorageStart /\ diskFile = Absent /\ files = [p \in Ports |-> Absent] /\ quota = [events |-> 0, transfers |-> 0]

DiskNext ==
  \/ \E looks, reads \in BOOLEAN : DiskOpen(looks, reads)
  \/ DiskFlush
  \/ \E s \in 0..Sectors : DiskSector(s)
  \/ \E toRam, inRam \in BOOLEAN, length \in 0..2 : DiskTransfer(toRam, length, inRam)
  \/ \E v \in Contents : SetRam(v)
HostNext ==
  \/ \E p \in Ports, kind \in {"storage", "cartridge"}, protect, backed \in BOOLEAN : Attach(p, kind, protect, backed)
  \/ \E p \in Ports : Detach(p)
  \/ \E p \in Ports, on \in BOOLEAN : Protect(p, on)
  \/ HostRaises
PortNext ==
  \/ \E p \in Ports \cup {9} : PortSelect(p)
  \/ \E s \in 0..Sectors : PortSector(s)
  \/ \E toRam, inRam \in BOOLEAN, length \in 0..2 : PortTransfer(toRam, length, inRam)
  \/ PortFlush \/ Eject \/ Enter \/ ReadEvent \/ Return \/ MachineReset
  \/ \E v \in Contents : SetRam(v)

StorageNext == DiskNext \/ HostNext \/ PortNext
StorageSpec == StorageInit /\ [][StorageNext]_storageVars

(***************************************************************************)
(* Properties.                                                             *)
(***************************************************************************)

\* A disk taken for clean has in its host file all the program wrote, however often the
\* host refused to write it; and so has a medium in a port, or pulled out of it, as long as
\* the host never refused.
MediaKeepWhatIsWritten ==
  /\ disk.path /\ ~disk.dirty => Opened(diskFile) = disk.image
  /\ \A p \in Ports \ refusals : written[p].backed /\ (ports[p].present => ~ports[p].dirty) => Medium(files[p]) = written[p].image

\* Of each port the program reads every coming and going, in the order they happened and
\* none twice: what it has read and what is queued alternate, and end with what is plugged in
\* now, whatever the handler leaves for later and however often the machine is reset.
State(p) == IF ports[p].present THEN "connected" ELSE "disconnected"
EventsOf(p) == {i \in DOMAIN events : events[i].port = p}
ToldInOrder(p) ==
  /\ EventsOf(p) = {} => lastRead[p] = State(p)
  /\ \A i \in EventsOf(p) :
       /\ (\A j \in EventsOf(p) : j <= i) => events[i].what = State(p)
       /\ (\A j \in EventsOf(p) : i <= j) => events[i].what # lastRead[p]
       /\ \A j \in EventsOf(p) : i < j /\ (\A k \in EventsOf(p) : k <= i \/ j <= k) => events[i].what # events[j].what

\* And while an event is queued, its interrupt is pending, or the handler is reading, or the
\* host is about to raise it: but for events that a reset of the machine, which clears the
\* interrupt and keeps the queue, or a handler that went before the queue was empty has
\* passed over.  Nothing announces those until something else comes or goes, and only a
\* handler that reads until there is none is then sure to find them.
Announced == events # <<>> /\ ~passedOver => raised \/ handler = "reading" \/ hostDoes = "pushed"

\* No medium comes or goes that the program is not told of, with those exceptions.
EventsAreSeen == Announced /\ \A p \in Ports : ToldInOrder(p)
=============================================================================
