---------------------------- MODULE DevicesProofs ----------------------------
(* Proofs about the devices.  Storage: the program reads of every medium   *)
(* that comes or goes, in order, over resets of the machine and whatever   *)
(* its handler leaves for later, and what is written to a disk or a medium *)
(* is there until it is overwritten.  Audio: a program that waits for its  *)
(* tone or for a channel waits for somebody, and the two threads never     *)
(* wait for each other.  HostFs and VideoScan: a command that fails leaves *)
(* the host's files alone but for what it may do, appended bytes replace   *)
(* nothing, and no picture is drawn into while it is shown.                *)
EXTENDS Storage, Audio, HostFs, VideoScan, FiniteSetTheorems, WellFoundedInduction, TLAPS

-----------------------------------------------------------------------------
(* Storage                                                                   *)

(* What is written stays: the strengthening.  Images and files are of sectors *)
(* that can be stored, and a medium in a port is what the program wrote on it. *)
Images == Seq(Contents)
Kinds == {"none", "storage", "cartridge"}
DiskOK ==
  /\ disk \in [path : BOOLEAN, image : Images, dirty : BOOLEAN, status : {"ready", "error"}, sector : Nat]
  /\ disk.path => disk.image # <<>>
  /\ diskFile \in Images \cup {Absent}
PortsOK ==
  /\ ports \in [Ports -> [present : BOOLEAN, kind : Kinds, protected : BOOLEAN, backed : BOOLEAN,
                          image : Images, dirty : BOOLEAN]]
  /\ files \in [Ports -> Images \cup {Absent}]
  /\ written \in [Ports -> [image : Images, backed : BOOLEAN]]
  /\ portReg \in [selected : Ports, sector : Nat, error : BOOLEAN]
  /\ ramValue \in Contents
Mirrored == \A p \in Ports : ports[p].present => /\ ports[p].image = written[p].image
                                                 /\ ports[p].backed = written[p].backed
DiskKept == disk.path /\ ~disk.dirty => Opened(diskFile) = disk.image
Settled(p) == written[p].backed /\ (ports[p].present => ~ports[p].dirty) => Medium(files[p]) = written[p].image
PortsKept == \A p \in Ports \ refusals : Settled(p)
KInv == DiskOK /\ PortsOK /\ Mirrored /\ DiskKept /\ PortsKept

portVars == <<ports, files, written, portReg, ramValue, refusals>>

(* No image is the mark of a missing file, and a blank one is an image.      *)
LEMMA ImagesAreFiles ==
  /\ Absent \notin Images
  /\ \A n \in Nat : Blank(n) \in Images
  /\ Blank(Sectors) # <<>>
<1>1. Absent \notin Images
  BY StorageAssumption DEF Absent, Images
<1>2. \A n \in Nat : Blank(n) \in Images /\ Len(Blank(n)) = n
  BY StorageAssumption DEF Blank, Images
<1>3. QED
  BY <1>1, <1>2, StorageAssumption

(* What opens is an image, and not an empty one.                             *)
LEMMA OpenedIsAnImage ==
  ASSUME NEW content \in Images \cup {Absent}
  PROVE  Opened(content) \in Images \ {<<>>}
BY ImagesAreFiles, StorageAssumption DEF Opened

LEMMA MediumIsAnImage ==
  ASSUME NEW content \in Images \cup {Absent}
  PROVE  Medium(content) \in Images
BY ImagesAreFiles, StorageAssumption DEF Medium

(* A sector inside an image is one that can be stored, and storing it keeps  *)
(* the image an image of the same length.                                    *)
LEMMA SectorsOfAnImage ==
  ASSUME NEW image \in Images, NEW s \in Nat, s < Len(image), NEW v \in Contents
  PROVE  /\ image[s + 1] \in Contents
         /\ [image EXCEPT ![s + 1] = v] \in Images \ {<<>>}
BY DEF Images

(* What the disk does leaves its image an image and the ports alone.         *)
LEMMA DiskStep ==
  ASSUME KInv, DiskNext
  PROVE  /\ DiskOK' /\ DiskKept'
         /\ UNCHANGED <<ports, files, written, portReg, refusals>> /\ ramValue' \in Contents
<1> DEFINE Kept == UNCHANGED <<ports, files, written, portReg, refusals>>
           Goal == DiskOK' /\ DiskKept' /\ Kept /\ ramValue' \in Contents
<1>0. DiskOK /\ DiskKept /\ ramValue \in Contents
  BY DEF KInv, PortsOK
<1>1. ASSUME NEW looks \in BOOLEAN, NEW reads \in BOOLEAN, DiskOpen(looks, reads)
      PROVE  Goal
  <2>1. Kept /\ UNCHANGED <<diskFile, ramValue>>
    BY <1>1 DEF DiskOpen
  <2>2. \/ disk' = disk
        \/ disk' = [disk EXCEPT !.path = TRUE, !.image = Opened(diskFile), !.status = "ready", !.dirty = FALSE]
    BY <1>1 DEF DiskOpen
  <2>3. diskFile \in Images \cup {Absent} /\ Opened(diskFile) \in Images \ {<<>>}
    BY <1>0, OpenedIsAnImage DEF DiskOK
  <2>4. QED
    BY <1>0, <2>1, <2>2, <2>3 DEF DiskOK, DiskKept
<1>2. CASE DiskFlush
  <2>1. Kept /\ UNCHANGED ramValue
    BY <1>2 DEF DiskFlush
  <2>2. PICK o \in FlushOutcomes(disk, diskFile) :
          disk' = [o.d EXCEPT !.status = IF o.ok THEN "ready" ELSE "error"] /\ diskFile' = o.f
    BY <1>2 DEF DiskFlush
  <2>3. CASE o.d = disk /\ (o.f = diskFile \/ (disk.dirty /\ o.f = <<>>))
    <3>1. o.f \in Images \cup {Absent}
      <4>1. <<>> \in Images /\ diskFile \in Images \cup {Absent}
        BY <1>0 DEF DiskOK, Images
      <4>2. QED
        BY <2>3, <4>1
    <3>2. /\ disk' \in [path : BOOLEAN, image : Images, dirty : BOOLEAN, status : {"ready", "error"}, sector : Nat]
          /\ disk'.path = disk.path /\ disk'.dirty = disk.dirty /\ disk'.image = disk.image
      BY <1>0, <2>2, <2>3 DEF DiskOK
    <3>3. QED
      BY <1>0, <2>1, <2>2, <2>3, <3>1, <3>2 DEF DiskOK, DiskKept
  <2>4. CASE disk.path /\ o.d = [disk EXCEPT !.dirty = FALSE] /\ o.f = disk.image
    <3>1. disk.image \in Images /\ disk.image # <<>> /\ disk.image # Absent
      BY <1>0, <2>4, ImagesAreFiles DEF DiskOK
    <3>2. /\ disk' \in [path : BOOLEAN, image : Images, dirty : BOOLEAN, status : {"ready", "error"}, sector : Nat]
          /\ disk'.image = disk.image
      BY <1>0, <2>2, <2>4 DEF DiskOK
    <3>3. Opened(diskFile') = disk'.image
      BY <2>2, <2>4, <3>1, <3>2 DEF Opened
    <3>4. QED
      BY <2>1, <1>0, <2>2, <2>4, <3>1, <3>2, <3>3 DEF DiskOK, DiskKept
  <2>5. CASE ~disk.path \/ ~disk.dirty
    <3>1. FlushOutcomes(disk, diskFile) = {[d |-> disk, f |-> diskFile, ok |-> TRUE]}
      BY <2>5, Zenon DEF FlushOutcomes
    <3>2. o.d = disk /\ o.f = diskFile
      BY <2>2, <3>1
    <3>3. QED
      BY <2>3, <3>2
  <2>6. CASE disk.path /\ disk.dirty
    <3>1. FlushOutcomes(disk, diskFile) =
            {[d |-> disk, f |-> diskFile, ok |-> FALSE], [d |-> disk, f |-> <<>>, ok |-> FALSE],
             [d |-> [disk EXCEPT !.dirty = FALSE], f |-> disk.image, ok |-> TRUE]}
      BY <2>6, Zenon DEF FlushOutcomes
    <3>2. \/ o.d = disk /\ (o.f = diskFile \/ o.f = <<>>)
          \/ o.d = [disk EXCEPT !.dirty = FALSE] /\ o.f = disk.image
      <4> DEFINE clean == [disk EXCEPT !.dirty = FALSE]
      <4>1. o \in {[d |-> disk, f |-> diskFile, ok |-> FALSE], [d |-> disk, f |-> <<>>, ok |-> FALSE],
                   [d |-> clean, f |-> disk.image, ok |-> TRUE]}
        BY <2>2, <3>1
      <4> HIDE DEF clean
      <4>2. \/ o.d = disk /\ (o.f = diskFile \/ o.f = <<>>)
            \/ o.d = clean /\ o.f = disk.image
        BY <4>1
      <4>3. QED
        BY <4>2 DEF clean
    <3>3. CASE o.d = disk /\ (o.f = diskFile \/ o.f = <<>>)
      BY <2>3, <2>6, <3>3
    <3>4. QED
      BY <2>4, <2>6, <3>2, <3>3
  <2>7. QED
    BY <2>5, <2>6
<1>3. ASSUME NEW s \in 0..Sectors, DiskSector(s)
      PROVE  Goal
  <2>1. Kept /\ UNCHANGED <<diskFile, ramValue>>
    BY <1>3 DEF DiskSector
  <2>2. disk' = [disk EXCEPT !.sector = s, !.status = IF s < Len(disk.image) THEN "ready" ELSE "error"]
    BY <1>3 DEF DiskSector
  <2>3. s \in Nat
    BY StorageAssumption
  <2>4. QED
    BY <1>0, <2>1, <2>2, <2>3 DEF DiskOK, DiskKept
<1>4. ASSUME NEW toRam \in BOOLEAN, NEW inRam \in BOOLEAN, NEW length \in 0..2, DiskTransfer(toRam, length, inRam)
      PROVE  Goal
  <2>1. Kept /\ UNCHANGED diskFile
    BY <1>4 DEF DiskTransfer
  <2>2. CASE ramValue' = ramValue /\ (disk' = disk \/ \E v \in {"ready", "error"} : disk' = [disk EXCEPT !.status = v])
    BY <1>0, <2>1, <2>2 DEF DiskOK, DiskKept
  <2>3. CASE ~Refused2(disk.sector, disk.image, length, inRam) /\ toRam /\ disk' = [disk EXCEPT !.status = "ready"]
             /\ ramValue' = disk.image[disk.sector + 1]
    <3>1. disk.image \in Images /\ disk.sector \in Nat /\ disk.sector < Len(disk.image)
      BY <1>0, <2>3 DEF DiskOK, Refused2, Images
    <3>2. ramValue' \in Contents
      BY <1>0, <2>3, <3>1, SectorsOfAnImage
    <3>3. QED
      BY <1>0, <2>1, <2>3, <3>2 DEF DiskOK, DiskKept
  <2>4. CASE ~Refused2(disk.sector, disk.image, length, inRam) /\ ramValue' = ramValue
             /\ disk' = [disk EXCEPT !.status = "ready", !.image = [disk.image EXCEPT ![disk.sector + 1] = ramValue], !.dirty = TRUE]
    <3>1. disk.image \in Images /\ disk.sector \in Nat /\ disk.sector < Len(disk.image)
      BY <1>0, <2>4 DEF DiskOK, Refused2, Images
    <3>2. [disk.image EXCEPT ![disk.sector + 1] = ramValue] \in Images \ {<<>>}
      BY <1>0, <3>1, SectorsOfAnImage
    <3>3. QED
      BY <1>0, <2>1, <2>4, <3>2 DEF DiskOK, DiskKept
  <2>5. QED
    BY <1>0, <1>4, <2>2, <2>3, <2>4 DEF DiskTransfer, DiskOK
<1>5. ASSUME NEW v \in Contents, SetRam(v)
      PROVE  Goal
  BY <1>0, <1>5 DEF SetRam, DiskOK, DiskKept
<1>6. QED
  BY <1>1, <1>2, <1>3, <1>4, <1>5 DEF DiskNext

(* What a flush of a port may leave: everything as it was, the medium clean   *)
(* and its file whole, or the host to blame.                                  *)
LEMMA FlushedPort ==
  ASSUME KInv, NEW p \in Ports, NEW o \in FlushPort(p)
  PROVE  /\ o.port \in {ports[p], [ports[p] EXCEPT !.dirty = FALSE]}
         /\ o.file \in Images \cup {Absent}
         /\ o.host => \/ o.port = ports[p] /\ o.file = files[p] /\ ~(ports[p].present /\ ports[p].backed /\ ports[p].dirty)
                      \/ ports[p].present /\ o.file = ports[p].image
<1>1. /\ ports[p].present \in BOOLEAN /\ ports[p].backed \in BOOLEAN /\ ports[p].dirty \in BOOLEAN
      /\ ports[p].image \in Images /\ files[p] \in Images \cup {Absent} /\ <<>> \in Images
  BY DEF KInv, PortsOK, Images
<1>2. CASE ports[p].present /\ ports[p].backed /\ ports[p].dirty
  <2>1. \/ o = [port |-> ports[p], file |-> files[p], ok |-> FALSE, host |-> FALSE]
        \/ \E f \in {ports[p].image, <<>>} :
             o = [port |-> [ports[p] EXCEPT !.dirty = FALSE], file |-> f, ok |-> TRUE, host |-> f # <<>>]
    BY <1>2 DEF FlushPort
  <2>2. CASE o = [port |-> ports[p], file |-> files[p], ok |-> FALSE, host |-> FALSE]
    BY <1>1, <2>2
  <2>3. ASSUME NEW f \in {ports[p].image, <<>>},
               o = [port |-> [ports[p] EXCEPT !.dirty = FALSE], file |-> f, ok |-> TRUE, host |-> f # <<>>]
        PROVE  /\ o.port = [ports[p] EXCEPT !.dirty = FALSE] /\ o.file = f
               /\ o.host = TRUE => f = ports[p].image
    BY <2>3
  <2>4. QED
    BY <1>1, <1>2, <2>1, <2>2, <2>3
<1>3. CASE ~(ports[p].present /\ ports[p].backed /\ ports[p].dirty)
  BY <1>1, <1>3 DEF FlushPort
<1>4. QED
  BY <1>2, <1>3

(* A port left as a flush left it, or empty, keeps what was written as long   *)
(* as the host is not to blame.                                               *)
LEMMA FlushKeeps ==
  ASSUME KInv, NEW p \in Ports, NEW o \in FlushPort(p), UNCHANGED written,
         \/ ports' = [ports EXCEPT ![p] = Empty]
         \/ ports' = [ports EXCEPT ![p] = o.port],
         files' = [files EXCEPT ![p] = o.file], Refusal(p, o)
  PROVE  PortsKept' /\ Mirrored' /\ files' \in [Ports -> Images \cup {Absent}]
         /\ ports' \in [Ports -> [present : BOOLEAN, kind : Kinds, protected : BOOLEAN, backed : BOOLEAN,
                                  image : Images, dirty : BOOLEAN]]
<1>0. /\ o.port \in {ports[p], [ports[p] EXCEPT !.dirty = FALSE]}
      /\ o.file \in Images \cup {Absent}
      /\ o.host => \/ o.port = ports[p] /\ o.file = files[p] /\ ~(ports[p].present /\ ports[p].backed /\ ports[p].dirty)
                   \/ ports[p].present /\ o.file = ports[p].image
  BY FlushedPort
<1>1. PortsOK /\ Mirrored /\ PortsKept
  BY DEF KInv
<1>2. Empty \in [present : BOOLEAN, kind : Kinds, protected : BOOLEAN, backed : BOOLEAN, image : Images, dirty : BOOLEAN]
      /\ Empty.present = FALSE
  BY DEF Empty, Kinds, Images
<1>3. o.port \in [present : BOOLEAN, kind : Kinds, protected : BOOLEAN, backed : BOOLEAN, image : Images, dirty : BOOLEAN]
      /\ o.port.present = ports[p].present /\ o.port.backed = ports[p].backed /\ o.port.image = ports[p].image
  BY <1>0, <1>1 DEF PortsOK
<1>4. /\ files' \in [Ports -> Images \cup {Absent}]
      /\ ports' \in [Ports -> [present : BOOLEAN, kind : Kinds, protected : BOOLEAN, backed : BOOLEAN,
                               image : Images, dirty : BOOLEAN]]
  BY <1>0, <1>1, <1>2, <1>3 DEF PortsOK
<1>5. /\ \A q \in Ports \ {p} : ports'[q] = ports[q] /\ files'[q] = files[q]
      /\ ports'[p] \in {Empty, o.port} /\ files'[p] = o.file
  BY <1>1 DEF PortsOK
<1>6. Mirrored'
  BY <1>1, <1>2, <1>3, <1>5 DEF Mirrored
<1>7. refusals \subseteq refusals' /\ (o.host \/ p \in refusals')
  BY <1>0 DEF Refusal
<1>8. ASSUME NEW q \in Ports \ refusals', q # p
      PROVE  Settled(q)'
  BY <1>1, <1>5, <1>7, <1>8 DEF PortsKept, Settled
<1>9. ASSUME p \notin refusals', written[p].backed
      PROVE  Medium(files'[p]) = written[p].image
         \/ (ports'[p].present = TRUE /\ ports'[p].dirty = TRUE)
  <2>1. o.host /\ Settled(p) /\ files[p] \in Images \cup {Absent}
    BY <1>1, <1>7, <1>9 DEF PortsKept, PortsOK
  <2>2. /\ ports[p].present \in BOOLEAN /\ ports[p].dirty \in BOOLEAN /\ ports[p].backed \in BOOLEAN
        /\ ports[p].present => ports[p].backed = written[p].backed /\ ports[p].image = written[p].image
    BY <1>1 DEF PortsOK, Mirrored
  <2>3. CASE o.port = ports[p] /\ o.file = files[p] /\ ~(ports[p].present /\ ports[p].backed /\ ports[p].dirty)
    BY <1>5, <1>9, <2>1, <2>2, <2>3 DEF Settled
  <2>4. CASE ports[p].present /\ o.file = ports[p].image
    <3>1. ports[p].image # Absent
      BY <1>1, ImagesAreFiles DEF PortsOK
    <3>2. QED
      BY <1>5, <2>2, <2>4, <3>1 DEF Medium
  <2>5. QED
    BY <1>0, <2>1, <2>3, <2>4
<1>10. Settled(p)' \/ p \in refusals'
  BY <1>9 DEF Settled
<1>11. QED
  BY <1>4, <1>6, <1>8, <1>10 DEF PortsKept

(* What the host does to its ports.                                           *)
LEMMA HostStep ==
  ASSUME KInv, HostNext
  PROVE  KInv'
<1>0. DiskOK /\ PortsOK /\ Mirrored /\ DiskKept /\ PortsKept
  BY DEF KInv
<1>1. ASSUME NEW p \in Ports, NEW kind \in {"storage", "cartridge"}, NEW protect \in BOOLEAN, NEW backed \in BOOLEAN,
             Attach(p, kind, protect, backed)
      PROVE  KInv'
  <2> DEFINE content == IF backed THEN files[p] ELSE Absent
             image == Medium(content)
             port == [present |-> TRUE, kind |-> kind, protected |-> protect \/ kind = "cartridge",
                      backed |-> backed, image |-> image, dirty |-> FALSE]
             note == [image |-> image, backed |-> backed]
  <2>1. ports' = [ports EXCEPT ![p] = port] /\ written' = [written EXCEPT ![p] = note]
    BY <1>1 DEF Attach
  <2>2. UNCHANGED <<disk, diskFile, files, portReg, ramValue, refusals>>
    BY <1>1 DEF Attach
  <2>3. content \in Images \cup {Absent} /\ (backed => image = Medium(files[p]))
    BY <1>0 DEF PortsOK
  <2>4. image \in Images
    BY <2>3, MediumIsAnImage
  <2> HIDE DEF content, image
  <2>5. /\ port \in [present : BOOLEAN, kind : Kinds, protected : BOOLEAN, backed : BOOLEAN, image : Images, dirty : BOOLEAN]
        /\ note \in [image : Images, backed : BOOLEAN]
        /\ port.image = note.image /\ port.backed = note.backed
        /\ note.backed => note.image = Medium(files[p])
    BY <2>3, <2>4 DEF Kinds
  <2> HIDE DEF port, note
  <2>6. PortsOK'
    BY <1>0, <2>1, <2>2, <2>5 DEF PortsOK
  <2>7. Mirrored'
    BY <1>0, <2>1, <2>5 DEF PortsOK, Mirrored
  <2>8. PortsKept'
    <3>1. \A q \in Ports \ {p} : ports'[q] = ports[q] /\ written'[q] = written[q]
      BY <1>0, <2>1 DEF PortsOK
    <3>2. written'[p] = note
      BY <1>0, <2>1 DEF PortsOK
    <3>3. Settled(p)'
      BY <2>2, <2>5, <3>2 DEF Settled
    <3>4. \A q \in Ports \ refusals : q # p => Settled(q)'
      BY <1>0, <2>2, <3>1 DEF PortsKept, Settled
    <3>5. QED
      BY <2>2, <3>3, <3>4 DEF PortsKept
  <2>9. QED
    BY <1>0, <2>2, <2>6, <2>7, <2>8 DEF KInv, DiskOK, DiskKept
<1>2. ASSUME NEW p \in Ports, Detach(p)
      PROVE  KInv'
  <2>1. UNCHANGED <<disk, diskFile, portReg, ramValue, written>>
    BY <1>2 DEF Detach
  <2>2. PICK o \in FlushPort(p) :
          ports' = [ports EXCEPT ![p] = Empty] /\ files' = [files EXCEPT ![p] = o.file] /\ Refusal(p, o)
    BY <1>2 DEF Detach, Pulled
  <2>3. QED
    BY <1>0, <2>1, <2>2, FlushKeeps DEF KInv, PortsOK, DiskOK, DiskKept
<1>3. ASSUME NEW p \in Ports, NEW on \in BOOLEAN, Protect(p, on)
      PROVE  KInv'
  <2>1. UNCHANGED <<disk, diskFile, files, portReg, ramValue, written, refusals>>
    BY <1>3 DEF Protect
  <2>2. ports' = [ports EXCEPT ![p] = [ports[p] EXCEPT !.protected = on \/ ports[p].kind = "cartridge"]]
    BY <1>0, <1>3 DEF Protect, PortsOK
  <2>3. /\ [ports[p] EXCEPT !.protected = on \/ ports[p].kind = "cartridge"]
             \in [present : BOOLEAN, kind : Kinds, protected : BOOLEAN, backed : BOOLEAN, image : Images, dirty : BOOLEAN]
        /\ \A q \in Ports : /\ ports'[q].present = ports[q].present /\ ports'[q].image = ports[q].image
                            /\ ports'[q].backed = ports[q].backed /\ ports'[q].dirty = ports[q].dirty
    BY <1>0, <2>2 DEF PortsOK
  <2>4. PortsOK'
    BY <1>0, <2>1, <2>2, <2>3 DEF PortsOK
  <2>5. Mirrored' /\ PortsKept'
    BY <1>0, <2>1, <2>3 DEF Mirrored, PortsKept, Settled
  <2>6. QED
    BY <1>0, <2>1, <2>4, <2>5 DEF KInv, DiskOK, DiskKept
<1>4. CASE HostRaises
  BY <1>0, <1>4 DEF HostRaises, KInv, DiskOK, PortsOK, Mirrored, DiskKept, PortsKept, Settled
<1>5. QED
  BY <1>1, <1>2, <1>3, <1>4 DEF HostNext

(* What the program does to its ports.                                        *)
LEMMA PortStep ==
  ASSUME KInv, PortNext
  PROVE  KInv'
<1>0. DiskOK /\ PortsOK /\ Mirrored /\ DiskKept /\ PortsKept
  BY DEF KInv
<1>1. ASSUME NEW p \in Ports \cup {9}, PortSelect(p)
      PROVE  KInv'
  <2>1. UNCHANGED <<disk, diskFile, ports, files, ramValue, written, refusals>>
        /\ portReg' \in [selected : Ports, sector : Nat, error : BOOLEAN]
    BY <1>0, <1>1 DEF PortSelect, PortsOK
  <2>2. QED
    BY <1>0, <2>1 DEF KInv, DiskOK, PortsOK, Mirrored, DiskKept, PortsKept, Settled
<1>2. ASSUME NEW s \in 0..Sectors, PortSector(s)
      PROVE  KInv'
  <2>1. s \in Nat
    BY StorageAssumption
  <2>2. UNCHANGED <<disk, diskFile, ports, files, ramValue, written, refusals>>
        /\ portReg' \in [selected : Ports, sector : Nat, error : BOOLEAN]
    BY <1>0, <1>2, <2>1 DEF PortSector, PortsOK
  <2>3. QED
    BY <1>0, <2>2 DEF KInv, DiskOK, PortsOK, Mirrored, DiskKept, PortsKept, Settled
<1>3. ASSUME NEW toRam \in BOOLEAN, NEW inRam \in BOOLEAN, NEW length \in 0..2, PortTransfer(toRam, length, inRam)
      PROVE  KInv'
  <2> DEFINE p == portReg.selected
             s == portReg.sector
             wrong == ~Selected.present \/ (~toRam /\ Selected.protected)
                      \/ (length > 0 /\ Refused2(portReg.sector, Selected.image, length, inRam))
  <2>1. p \in Ports /\ s \in Nat /\ ports[p].image \in Images /\ Selected = ports[p]
    BY <1>0 DEF PortsOK, Selected
  <2>2. UNCHANGED <<disk, diskFile, files, refusals>> /\ portReg' \in [selected : Ports, sector : Nat, error : BOOLEAN]
    <3>1. portReg' = [portReg EXCEPT !.error = wrong] /\ wrong \in BOOLEAN
      BY <1>3 DEF PortTransfer
    <3> HIDE DEF wrong
    <3>2. QED
      BY <1>0, <1>3, <3>1 DEF PortTransfer, PortsOK
  <2>3. CASE UNCHANGED <<ports, ramValue, written>>
    BY <1>0, <2>2, <2>3 DEF KInv, DiskOK, PortsOK, Mirrored, DiskKept, PortsKept, Settled
  <2>4. CASE s < Len(ports[p].image) /\ ramValue' = ports[p].image[s + 1] /\ UNCHANGED <<ports, written>>
    <3>1. ramValue' \in Contents
      BY <1>0, <2>1, <2>4, SectorsOfAnImage DEF PortsOK
    <3>2. QED
      BY <1>0, <2>2, <2>4, <3>1 DEF KInv, DiskOK, PortsOK, Mirrored, DiskKept, PortsKept, Settled
  <2>5. CASE /\ ports[p].present /\ s < Len(ports[p].image) /\ UNCHANGED ramValue
             /\ ports' = [ports EXCEPT ![p] = [ports[p] EXCEPT !.image[s + 1] = ramValue, !.dirty = TRUE]]
             /\ written' = [written EXCEPT ![p].image[s + 1] = ramValue]
    <3> DEFINE stored == [ports[p].image EXCEPT ![s + 1] = ramValue]
    <3>1. stored \in Images
      BY <1>0, <2>1, <2>5, SectorsOfAnImage DEF PortsOK
    <3>2. ports' = [ports EXCEPT ![p] = [ports[p] EXCEPT !.image = stored, !.dirty = TRUE]]
      BY <1>0, <2>1, <2>5 DEF PortsOK
    <3>3. written' = [written EXCEPT ![p] = [written[p] EXCEPT !.image = stored]]
      BY <1>0, <2>1, <2>5 DEF PortsOK, Mirrored
    <3> HIDE DEF stored, p, s
    <3> DEFINE now == ports[p]
               then == written[p]
    <3>4. PortsOK'
      <4>1. [now EXCEPT !.image = stored, !.dirty = TRUE]
              \in [present : BOOLEAN, kind : Kinds, protected : BOOLEAN, backed : BOOLEAN, image : Images, dirty : BOOLEAN]
        <5>1. now \in [present : BOOLEAN, kind : Kinds, protected : BOOLEAN, backed : BOOLEAN, image : Images, dirty : BOOLEAN]
          BY <1>0, <2>1 DEF PortsOK
        <5> HIDE DEF now
        <5>2. QED
          BY <3>1, <5>1
      <4>2. [then EXCEPT !.image = stored] \in [image : Images, backed : BOOLEAN]
        <5>1. then \in [image : Images, backed : BOOLEAN]
          BY <1>0, <2>1 DEF PortsOK
        <5> HIDE DEF then
        <5>2. QED
          BY <3>1, <5>1
      <4> DEFINE later == [now EXCEPT !.image = stored, !.dirty = TRUE]
                 after == [then EXCEPT !.image = stored]
      <4>3. ports' = [ports EXCEPT ![p] = later] /\ written' = [written EXCEPT ![p] = after]
        BY <3>2, <3>3
      <4> HIDE DEF later, after
      <4>4. /\ ports' \in [Ports -> [present : BOOLEAN, kind : Kinds, protected : BOOLEAN, backed : BOOLEAN,
                                     image : Images, dirty : BOOLEAN]]
            /\ written' \in [Ports -> [image : Images, backed : BOOLEAN]]
        BY <1>0, <2>1, <4>1, <4>2, <4>3 DEF PortsOK, later, after
      <4>5. QED
        BY <1>0, <2>2, <2>5, <4>4 DEF PortsOK
    <3>5. /\ \A q \in Ports \ {p} : ports'[q] = ports[q] /\ written'[q] = written[q]
          /\ ports'[p].present = TRUE /\ ports'[p].dirty = TRUE /\ ports'[p].image = stored
          /\ ports'[p].backed = ports[p].backed
          /\ written'[p].image = stored /\ written'[p].backed = written[p].backed
      <4>1. /\ ports'[p] = [now EXCEPT !.image = stored, !.dirty = TRUE] /\ written'[p] = [then EXCEPT !.image = stored]
            /\ \A q \in Ports \ {p} : ports'[q] = ports[q] /\ written'[q] = written[q]
        BY <1>0, <2>1, <3>2, <3>3 DEF PortsOK
      <4>2. /\ now \in [present : BOOLEAN, kind : Kinds, protected : BOOLEAN, backed : BOOLEAN, image : Images, dirty : BOOLEAN]
            /\ then \in [image : Images, backed : BOOLEAN] /\ now.present
        BY <1>0, <2>1, <2>5 DEF PortsOK
      <4> DEFINE later == ports'[p]
                 after == written'[p]
      <4>3. /\ later.present = now.present /\ later.dirty = TRUE /\ later.image = stored /\ later.backed = now.backed
            /\ after.image = stored /\ after.backed = then.backed
        <5> HIDE DEF now, then
        <5>1. later = [now EXCEPT !.image = stored, !.dirty = TRUE] /\ after = [then EXCEPT !.image = stored]
          BY <4>1
        <5> HIDE DEF later, after
        <5>2. QED
          BY <4>2, <5>1
      <4>4. QED
        BY <4>1, <4>2, <4>3
    <3>6. Mirrored'
      BY <1>0, <2>1, <2>5, <3>5 DEF Mirrored
    <3>7. PortsKept'
      BY <1>0, <2>2, <3>5 DEF PortsKept, Settled
    <3>8. QED
      BY <1>0, <2>2, <3>4, <3>6, <3>7 DEF KInv, DiskOK, DiskKept
  <2>6. QED
    BY <1>3, <2>1, <2>3, <2>4, <2>5 DEF PortTransfer, Refused2, Images
<1>4. CASE PortFlush
  <2>1. portReg.selected \in Ports
    BY <1>0 DEF PortsOK
  <2>2. UNCHANGED <<disk, diskFile, ramValue, written>>
    BY <1>4 DEF PortFlush
  <2>3. PICK o \in FlushPort(portReg.selected) :
          /\ ports' = [ports EXCEPT ![portReg.selected] = o.port] /\ files' = [files EXCEPT ![portReg.selected] = o.file]
          /\ portReg' = [portReg EXCEPT !.error = ~Selected.present \/ ~o.ok] /\ Refusal(portReg.selected, o)
    BY <1>4 DEF PortFlush
  <2>4. portReg' \in [selected : Ports, sector : Nat, error : BOOLEAN]
    BY <1>0, <2>3 DEF PortsOK
  <2>5. QED
    BY <1>0, <2>1, <2>2, <2>3, <2>4, FlushKeeps DEF KInv, PortsOK, DiskOK, DiskKept
<1>5. CASE Eject
  <2>1. portReg.selected \in Ports
    BY <1>0 DEF PortsOK
  <2>2. UNCHANGED <<disk, diskFile, ramValue, written>> /\ portReg' \in [selected : Ports, sector : Nat, error : BOOLEAN]
    BY <1>0, <1>5 DEF Eject, PortsOK
  <2>3. CASE Pulled(portReg.selected)
    <3>1. PICK o \in FlushPort(portReg.selected) :
            /\ ports' = [ports EXCEPT ![portReg.selected] = Empty]
            /\ files' = [files EXCEPT ![portReg.selected] = o.file] /\ Refusal(portReg.selected, o)
      BY <2>3 DEF Pulled
    <3>2. QED
      BY <1>0, <2>1, <2>2, <3>1, FlushKeeps DEF KInv, PortsOK, DiskOK, DiskKept
  <2>4. CASE UNCHANGED <<ports, files, refusals>>
    BY <1>0, <2>2, <2>4 DEF KInv, DiskOK, PortsOK, Mirrored, DiskKept, PortsKept, Settled
  <2>5. QED
    BY <1>5, <2>3, <2>4 DEF Eject
<1>6. CASE Enter \/ ReadEvent \/ Return \/ MachineReset
  BY <1>0, <1>6 DEF Enter, ReadEvent, Return, MachineReset, KInv, DiskOK, PortsOK, Mirrored, DiskKept, PortsKept, Settled
<1>7. ASSUME NEW v \in Contents, SetRam(v)
      PROVE  KInv'
  BY <1>0, <1>7 DEF SetRam, KInv, DiskOK, PortsOK, Mirrored, DiskKept, PortsKept, Settled
<1>8. QED
  BY <1>1, <1>2, <1>3, <1>4, <1>5, <1>6, <1>7 DEF PortNext

(* A machine starts with no medium in its ports and its disk not open.        *)
LEMMA StorageStarts == StorageInit => KInv
<1> SUFFICES ASSUME StorageInit PROVE KInv
  OBVIOUS
<1>1. PICK n \in Sizes2 : diskFile \in {Absent, Blank(n)} /\ files = [p \in Ports |-> IF p = 0 THEN Blank(n) ELSE Absent]
  BY DEF StorageInit
<1>2. Blank(n) \in Images /\ Blank(Sectors) \in Images /\ <<>> \in Images
  BY ImagesAreFiles, StorageAssumption DEF Images
<1>3. DiskOK /\ DiskKept
  BY <1>1, <1>2 DEF StorageInit, StorageStart, DiskOK, DiskKept
<1>4. PortsOK
  BY <1>1, <1>2, StorageAssumption DEF StorageInit, StorageStart, PortsOK, Empty, Kinds
<1>5. Mirrored /\ PortsKept
  BY DEF StorageInit, StorageStart, Mirrored, PortsKept, Settled, Empty
<1>6. QED
  BY <1>3, <1>4, <1>5 DEF KInv

(* So every step keeps it.                                                    *)
LEMMA StorageStep ==
  ASSUME KInv, [StorageNext]_storageVars
  PROVE  KInv'
<1>1. ASSUME DiskNext PROVE KInv'
  BY <1>1, DiskStep DEF KInv, PortsOK, Mirrored, PortsKept, Settled
<1>2. ASSUME UNCHANGED storageVars PROVE KInv'
  BY <1>2 DEF storageVars, KInv, DiskOK, PortsOK, Mirrored, DiskKept, PortsKept, Settled
<1>3. QED
  BY <1>1, <1>2, HostStep, PortStep DEF StorageNext

(* What the program writes is in the host's file once the medium is taken for *)
(* clean, or is pulled out, and the host did not refuse (DiskDevice::flush(), *)
(* PeripheralDevice::flushPort()).                                            *)
THEOREM MediaAreKept == StorageSpec => []MediaKeepWhatIsWritten
<1>1. StorageInit => KInv
  BY StorageStarts
<1>2. KInv /\ [StorageNext]_storageVars => KInv'
  BY StorageStep
<1>3. KInv => MediaKeepWhatIsWritten
  BY DEF KInv, DiskKept, PortsKept, Settled, MediaKeepWhatIsWritten
<1>4. QED
  BY <1>1, <1>2, <1>3, PTL DEF StorageSpec

-----------------------------------------------------------------------------
(* The events.  With the shape of the queue, what is claimed of them is kept  *)
(* by every step.                                                             *)
Tidings == {"connected", "disconnected"}
QueueOK ==
  /\ events \in Seq([port : Ports, what : Tidings])
  /\ lastRead \in [Ports -> Tidings]
EInv == QueueOK /\ \A p \in Ports : ToldInOrder(p)

(* A step that neither queues nor reads, and plugs nothing in or out.         *)
LEMMA NothingIsTold ==
  ASSUME EInv, UNCHANGED <<events, lastRead>>, \A p \in Ports : ports'[p].present = ports[p].present
  PROVE  EInv'
  BY DEF EInv, QueueOK, ToldInOrder, EventsOf, State

(* A coming or going is queued behind the others of its port, and is not what *)
(* the last of them said.                                                     *)
LEMMA ChangeIsQueued ==
  ASSUME EInv, NEW p \in Ports, NEW what \in Tidings,
         events' = Append(events, [port |-> p, what |-> what]), UNCHANGED lastRead,
         \A q \in Ports \ {p} : ports'[q].present = ports[q].present,
         State(p)' = what, State(p) # what
  PROVE  EInv'
<1> DEFINE n == Len(events) + 1
<1>1. /\ events \in Seq([port : Ports, what : Tidings]) /\ n \in Nat /\ DOMAIN events = 1..(n - 1) /\ DOMAIN events' = 1..n
      /\ \A i \in 1..(n - 1) : events'[i] = events[i]
      /\ events'[n] = [port |-> p, what |-> what]
  BY DEF EInv, QueueOK
<1>2. QueueOK'
  BY DEF EInv, QueueOK
<1> HIDE DEF n
<1>3. ASSUME NEW q \in Ports \ {p}
      PROVE  ToldInOrder(q)'
  <2>1. EventsOf(q)' = EventsOf(q) /\ \A i \in EventsOf(q) : events'[i] = events[i]
    BY <1>1, <1>3 DEF EventsOf
  <2>2. State(q)' = State(q)
    BY <1>3 DEF State
  <2>3. ToldInOrder(q) /\ lastRead'[q] = lastRead[q]
    BY <1>3 DEF EInv
  <2>4. ASSUME NEW i \in EventsOf(q)', \A j \in EventsOf(q)' : j <= i
        PROVE  events'[i].what = State(q)'
    BY <2>1, <2>2, <2>3, <2>4 DEF ToldInOrder
  <2>5. ASSUME NEW i \in EventsOf(q)', \A j \in EventsOf(q)' : i <= j
        PROVE  events'[i].what # lastRead'[q]
    BY <2>1, <2>3, <2>5 DEF ToldInOrder
  <2>6. ASSUME NEW i \in EventsOf(q)', NEW j \in EventsOf(q)', i < j, \A k \in EventsOf(q)' : k <= i \/ j <= k
        PROVE  events'[i].what # events'[j].what
    <3>1. i \in EventsOf(q) /\ j \in EventsOf(q) /\ events'[i] = events[i] /\ events'[j] = events[j]
      BY <2>1
    <3>2. \A k \in EventsOf(q) : k <= i \/ j <= k
      BY <2>1, <2>6
    <3>3. events[i].what # events[j].what
      BY <2>3, <2>6, <3>1, <3>2 DEF ToldInOrder
    <3>4. QED
      BY <3>1, <3>3
  <2>7. EventsOf(q)' = {} => lastRead'[q] = State(q)'
    BY <2>1, <2>2, <2>3 DEF ToldInOrder
  <2>8. QED
    BY <2>4, <2>5, <2>6, <2>7 DEF ToldInOrder
<1>4. EventsOf(p)' = EventsOf(p) \cup {n} /\ \A i \in EventsOf(p) : i \in Nat /\ i < n /\ events'[i] = events[i]
  BY <1>1 DEF EventsOf
<1>5. ToldInOrder(p)
  BY DEF EInv
<1>6. ToldInOrder(p)'
  <2>1. ASSUME NEW i \in EventsOf(p)', \A j \in EventsOf(p)' : j <= i
        PROVE  events'[i].what = State(p)'
    BY <1>1, <1>4, <2>1
  <2>2. ASSUME NEW i \in EventsOf(p)', \A j \in EventsOf(p)' : i <= j
        PROVE  events'[i].what # lastRead'[p]
    <3>1. CASE i = n
      BY <1>1, <1>4, <1>5, <2>2, <3>1 DEF ToldInOrder
    <3>2. CASE i # n
      BY <1>4, <1>5, <2>2, <3>2 DEF ToldInOrder
    <3>3. QED
      BY <3>1, <3>2
  <2>3. ASSUME NEW i \in EventsOf(p)', NEW j \in EventsOf(p)', i < j, \A k \in EventsOf(p)' : k <= i \/ j <= k
        PROVE  events'[i].what # events'[j].what
    <3>0. n \in Nat /\ (i \in EventsOf(p) \/ i = n) /\ (j \in EventsOf(p) \/ j = n)
      BY <1>1, <1>4
    <3>1. i \in EventsOf(p) /\ events'[i] = events[i] /\ i \in Nat /\ i < n
      <4>1. i # n
        BY <1>4, <2>3, <3>0
      <4>2. QED
        BY <1>4, <3>0, <4>1
    <3>2. CASE j = n
      <4>1. \A k \in EventsOf(p) : k <= i
        BY <1>4, <2>3, <3>0, <3>1, <3>2
      <4>2. events[i].what = State(p)
        BY <1>5, <3>1, <4>1 DEF ToldInOrder
      <4>3. events'[j].what = what
        BY <1>1, <3>2
      <4>4. QED
        BY <3>1, <4>2, <4>3
    <3>3. CASE j # n
      <4>1. j \in EventsOf(p) /\ events'[j] = events[j] /\ \A k \in EventsOf(p) : k <= i \/ j <= k
        BY <1>4, <2>3, <3>0, <3>3
      <4>2. events[i].what # events[j].what
        BY <1>5, <2>3, <3>1, <4>1 DEF ToldInOrder
      <4>3. QED
        BY <3>1, <4>1, <4>2
    <3>4. QED
      BY <3>2, <3>3
  <2>4. EventsOf(p)' # {}
    BY <1>4
  <2>5. QED
    BY <2>1, <2>2, <2>3, <2>4 DEF ToldInOrder
<1>7. QED
  BY <1>2, <1>3, <1>6 DEF EInv

(* Reading takes the first: the next of its port is another.                  *)
LEMMA FrontIsRead ==
  ASSUME EInv, events # <<>>, events' = Tail(events), UNCHANGED ports,
         lastRead' = [lastRead EXCEPT ![Head(events).port] = Head(events).what]
  PROVE  EInv'
<1> DEFINE n == Len(events)
           p == events[1].port
<1>1. /\ events \in Seq([port : Ports, what : Tidings]) /\ n \in Nat /\ n > 0 /\ DOMAIN events = 1..n /\ DOMAIN events' = 1..(n - 1)
      /\ \A i \in 1..(n - 1) : events'[i] = events[i + 1]
      /\ Head(events) = events[1] /\ events[1] \in [port : Ports, what : Tidings]
  <2>1. events \in Seq([port : Ports, what : Tidings])
    BY DEF EInv, QueueOK
  <2> DEFINE Event == [port : Ports, what : Tidings]
  <2> HIDE DEF Event
  <2>2. events \in Seq(Event)
    BY <2>1 DEF Event
  <2>3. /\ n \in Nat /\ n > 0 /\ DOMAIN events = 1..n /\ DOMAIN events' = 1..(n - 1)
        /\ \A i \in 1..(n - 1) : events'[i] = events[i + 1]
        /\ Head(events) = events[1] /\ events[1] \in Event
    BY <2>2
  <2>4. QED
    BY <2>1, <2>3 DEF Event
<1>2. /\ p \in Ports /\ lastRead'[p] = events[1].what /\ \A q \in Ports \ {p} : lastRead'[q] = lastRead[q]
      /\ lastRead' \in [Ports -> Tidings]
  BY <1>1 DEF EInv, QueueOK
<1>3. QueueOK'
  <2>1. events' \in Seq([port : Ports, what : Tidings])
    BY <1>1
  <2>2. QED
    BY <1>2, <2>1 DEF QueueOK
<1> HIDE DEF n, p
<1>4. ASSUME NEW q \in Ports
      PROVE  ToldInOrder(q)'
  <2>1. /\ \A i \in EventsOf(q)' : i + 1 \in EventsOf(q) /\ i \in Nat /\ i > 0 /\ events'[i] = events[i + 1]
        /\ \A i \in EventsOf(q) : i \in Nat /\ i > 0 /\ (i # 1 => i - 1 \in EventsOf(q)')
        /\ (1 \in EventsOf(q)) = (q = p)
    BY <1>1 DEF EventsOf, p
  <2>2. State(q)' = State(q) /\ ToldInOrder(q)
    BY DEF State, EInv
  <2>3. ASSUME EventsOf(q)' = {}
        PROVE  lastRead'[q] = State(q)
    <3>1. CASE q = p
      BY <1>2, <2>1, <2>2, <2>3, <3>1 DEF ToldInOrder
    <3>2. CASE q # p
      <4>1. EventsOf(q) = {}
        BY <2>1, <2>3, <3>2
      <4>2. QED
        BY <1>2, <2>2, <3>2, <4>1 DEF ToldInOrder
    <3>3. QED
      BY <3>1, <3>2
  <2>4. ASSUME NEW i \in EventsOf(q)', \A j \in EventsOf(q)' : j <= i
        PROVE  events'[i].what = State(q)
    <3>1. \A j \in EventsOf(q) : j <= i + 1
      BY <2>1, <2>4
    <3>2. QED
      BY <2>1, <2>2, <3>1 DEF ToldInOrder
  <2>5. ASSUME NEW i \in EventsOf(q)', \A j \in EventsOf(q)' : i <= j
        PROVE  events'[i].what # lastRead'[q]
    <3>0. i \in Nat /\ i > 0 /\ i + 1 \in EventsOf(q) /\ events'[i] = events[i + 1]
      BY <2>1
    <3>1. \A k \in EventsOf(q) : k <= 1 \/ i + 1 <= k
      BY <2>1, <2>5, <3>0
    <3>2. CASE q = p
      <4>1. 1 \in EventsOf(q) /\ 1 < i + 1
        BY <2>1, <3>0, <3>2
      <4>2. events[1].what # events[i + 1].what
        BY <2>2, <3>0, <3>1, <4>1 DEF ToldInOrder
      <4>3. QED
        BY <1>2, <3>0, <3>2, <4>2
    <3>3. CASE q # p
      <4>1. \A k \in EventsOf(q) : i + 1 <= k
        BY <2>1, <3>0, <3>1, <3>3
      <4>2. events[i + 1].what # lastRead[q]
        BY <2>2, <3>0, <4>1 DEF ToldInOrder
      <4>3. QED
        BY <1>2, <3>0, <3>3, <4>2
    <3>4. QED
      BY <3>2, <3>3
  <2>6. ASSUME NEW i \in EventsOf(q)', NEW j \in EventsOf(q)', i < j, \A k \in EventsOf(q)' : k <= i \/ j <= k
        PROVE  events'[i].what # events'[j].what
    <3>0. /\ i \in Nat /\ i > 0 /\ i + 1 \in EventsOf(q) /\ events'[i] = events[i + 1]
          /\ j \in Nat /\ j > 0 /\ j + 1 \in EventsOf(q) /\ events'[j] = events[j + 1]
      BY <2>1
    <3>1. i + 1 < j + 1
      BY <2>6, <3>0
    <3>2. ASSUME NEW k \in EventsOf(q) PROVE k <= i + 1 \/ j + 1 <= k
      <4>1. k \in Nat /\ k > 0 /\ (k # 1 => k - 1 \in EventsOf(q)')
        BY <2>1
      <4>2. CASE k = 1
        BY <3>0, <4>2
      <4>3. CASE k # 1
        <5>1. k - 1 <= i \/ j <= k - 1
          BY <2>6, <4>1, <4>3
        <5>2. QED
          BY <3>0, <4>1, <5>1
      <4>4. QED
        BY <4>2, <4>3
    <3>3. events[i + 1].what # events[j + 1].what
      BY <2>2, <3>0, <3>1, <3>2 DEF ToldInOrder
    <3>4. QED
      BY <3>0, <3>3
  <2>7. QED
    BY <2>2, <2>3, <2>4, <2>5, <2>6 DEF ToldInOrder
<1>5. QED
  BY <1>3, <1>4 DEF EInv

(* What is pulled out was in, and is told of.                                 *)
LEMMA GoingIsQueued ==
  ASSUME KInv, EInv, NEW p \in Ports, ports[p].present, Pulled(p), UNCHANGED lastRead
  PROVE  EInv'
<1>1. ports' = [ports EXCEPT ![p] = Empty] /\ events' = Append(events, [port |-> p, what |-> "disconnected"])
  BY DEF Pulled
<1>2. State(p) = "connected" /\ State(p)' = "disconnected" /\ \A q \in Ports \ {p} : ports'[q].present = ports[q].present
  BY <1>1 DEF KInv, PortsOK, State, Empty
<1>3. QED
  BY <1>1, <1>2, ChangeIsQueued DEF Tidings

(* Whatever is done to the media, all of it is told, once and in order.       *)
LEMMA TellingStep ==
  ASSUME KInv, EInv, [StorageNext]_storageVars
  PROVE  EInv'
<1>0. /\ ports \in [Ports -> [present : BOOLEAN, kind : Kinds, protected : BOOLEAN, backed : BOOLEAN, image : Images, dirty : BOOLEAN]]
      /\ portReg.selected \in Ports
  BY DEF KInv, PortsOK
<1>1. CASE DiskNext \/ UNCHANGED storageVars
  BY <1>1, NothingIsTold DEF DiskNext, DiskOpen, DiskFlush, DiskSector, DiskTransfer, SetRam, storageVars
<1>2. ASSUME NEW p \in Ports, NEW kind \in {"storage", "cartridge"}, NEW protect \in BOOLEAN, NEW backed \in BOOLEAN,
             Attach(p, kind, protect, backed)
      PROVE  EInv'
  <2>1. /\ ~ports[p].present /\ UNCHANGED lastRead /\ events' = Append(events, [port |-> p, what |-> "connected"])
        /\ ports'[p].present /\ \A q \in Ports \ {p} : ports'[q].present = ports[q].present
    BY <1>0, <1>2 DEF Attach
  <2>2. QED
    BY <2>1, ChangeIsQueued DEF State, Tidings
<1>3. ASSUME NEW p \in Ports, Detach(p)
      PROVE  EInv'
  BY <1>3, GoingIsQueued DEF Detach
<1>4. CASE HostRaises \/ \E p \in Ports, on \in BOOLEAN : Protect(p, on)
  <2>1. UNCHANGED <<events, lastRead>> /\ \A q \in Ports : ports'[q].present = ports[q].present
    BY <1>0, <1>4 DEF HostRaises, Protect
  <2>2. QED
    BY <2>1, NothingIsTold
<1>5. ASSUME NEW toRam \in BOOLEAN, NEW inRam \in BOOLEAN, NEW length \in 0..2, PortTransfer(toRam, length, inRam)
      PROVE  EInv'
  <2>1. UNCHANGED <<events, lastRead>>
    BY <1>5 DEF PortTransfer
  <2> DEFINE s == portReg.selected
             stored == [ports[s] EXCEPT !.image[portReg.sector + 1] = ramValue, !.dirty = TRUE]
  <2>2. ports' = ports \/ ports' = [ports EXCEPT ![s] = stored]
    BY <1>5 DEF PortTransfer, Selected
  <2>3. stored.present = ports[s].present
    BY <1>0
  <2>4. \A q \in Ports : ports'[q].present = ports[q].present
    <3> HIDE DEF s, stored
    <3>1. QED
      BY <1>0, <2>2, <2>3
  <2>5. QED
    BY <2>1, <2>4, NothingIsTold
<1>6. CASE PortFlush
  <2>1. UNCHANGED <<events, lastRead>>
    BY <1>6 DEF PortFlush
  <2>2. PICK o \in FlushPort(portReg.selected) : ports' = [ports EXCEPT ![portReg.selected] = o.port]
    BY <1>6 DEF PortFlush
  <2>3. o.port.present = ports[portReg.selected].present
    BY <1>0, <2>2 DEF FlushPort
  <2>4. QED
    BY <1>0, <2>1, <2>2, <2>3, NothingIsTold
<1>7. CASE Eject
  BY <1>0, <1>7, GoingIsQueued, NothingIsTold DEF Eject, Selected
<1>8. CASE ReadEvent
  BY <1>8, FrontIsRead, NothingIsTold DEF ReadEvent
<1>9. CASE Enter \/ Return \/ MachineReset
  BY <1>9, NothingIsTold DEF Enter, Return, MachineReset
<1>10. CASE (\E p \in Ports \cup {9} : PortSelect(p)) \/ (\E s \in 0..Sectors : PortSector(s)) \/ (\E v \in Contents : SetRam(v))
  BY <1>10, NothingIsTold DEF PortSelect, PortSector, SetRam
<1>11. QED
  BY <1>1, <1>2, <1>3, <1>4, <1>5, <1>6, <1>7, <1>8, <1>9, <1>10 DEF StorageNext, HostNext, PortNext

(* The interrupt is dropped only as the handler starts to read, or by a reset, *)
(* and the handler leaves events behind only where that is written down.       *)
LEMMA AnnouncingStep ==
  ASSUME Announced, [StorageNext]_storageVars
  PROVE  Announced'
<1> USE DEF Announced
<1>1. CASE DiskNext \/ UNCHANGED storageVars
  BY <1>1 DEF DiskNext, DiskOpen, DiskFlush, DiskSector, DiskTransfer, SetRam, storageVars
<1>2. CASE HostNext
  BY <1>2 DEF HostNext, Attach, Detach, Protect, HostRaises
<1>3. CASE PortFlush \/ Eject \/ Enter \/ ReadEvent \/ Return \/ MachineReset
  BY <1>3 DEF PortFlush, Eject, Enter, ReadEvent, Return, MachineReset
<1>4. CASE (\E p \in Ports \cup {9} : PortSelect(p)) \/ (\E s \in 0..Sectors : PortSector(s)) \/ (\E v \in Contents : SetRam(v))
           \/ \E toRam, inRam \in BOOLEAN, length \in 0..2 : PortTransfer(toRam, length, inRam)
  BY <1>4 DEF PortSelect, PortSector, SetRam, PortTransfer
<1>5. QED
  BY <1>1, <1>2, <1>3, <1>4 DEF StorageNext, PortNext

(* The program reads of every medium that comes or goes, in order and once,   *)
(* over resets of the machine and whatever its handler leaves for later; and  *)
(* an event waits unannounced only when a reset or the handler passed it over *)
(* (PeripheralDevice's _events, and raiseInterrupt() after the lock).         *)
THEOREM EventsReachTheProgram == StorageSpec => []EventsAreSeen
<1>1. StorageInit => KInv /\ EInv /\ Announced
  <2>1. StorageInit => EInv /\ Announced
    BY DEF StorageInit, StorageStart, EInv, QueueOK, Tidings, ToldInOrder, EventsOf, State, Empty, Announced
  <2>2. QED
    BY <2>1, StorageStarts
<1>2. KInv /\ EInv /\ Announced /\ [StorageNext]_storageVars => (KInv /\ EInv /\ Announced)'
  BY StorageStep, TellingStep, AnnouncingStep
<1>3. EInv /\ Announced => EventsAreSeen
  BY DEF EInv, EventsAreSeen
<1>4. QED
  BY <1>1, <1>2, <1>3, PTL DEF StorageSpec

-----------------------------------------------------------------------------
(* Audio                                                                     *)

(* The fields of what the threads keep.                                      *)
Keying(m) ==
  /\ m = [at |-> m.at, then |-> "key", channel |-> m.channel, command |-> m.command, rendered |-> m.rendered]
  /\ m.rendered \in BOOLEAN
Toning(m) == m = [at |-> m.at, then |-> "tone", duration |-> m.duration]
Hushing(m) == m = [at |-> m.at, then |-> m.then]
MachineFields ==
  \/ machineAt = Idle
  \/ machineAt.at \in {"open", "start", "opened"} /\ Toning(machineAt)
  \/ machineAt.at \in {"open", "start", "opened", "key"} /\ Keying(machineAt)
  \/ machineAt.at \in {"hush", "silence"} /\ Hushing(machineAt)
ToneFields == toneAt = [active |-> toneAt.active, left |-> toneAt.left, no |-> toneAt.no]
ChannelFields(c) == c = [stage |-> c.stage, level |-> c.level, releaseFrom |-> c.releaseFrom, envelope |-> c.envelope]
ChannelsFit ==
  /\ channels = [c \in Channels |-> channels[c]]
  /\ \A c \in Channels : ChannelFields(channels[c])
Fields == busy \in BOOLEAN /\ MachineFields /\ ToneFields /\ ChannelsFit

(* Neither lock is kept by the machine's thread from one step to another.    *)
LocksAreBrief == audioLock # "machine" /\ channelLock = "nobody"

Plays == hostAt \in {"here", "none"}
ToneOnItsWay == machineAt.at \in {"open", "start", "opened"} /\ machineAt.then = "tone"
(* A busy device has a tone, or is about to give it to the host.             *)
BusyHasTone == Plays /\ busy = TRUE => toneAt.active = TRUE \/ speakerAt = "over" \/ ToneOnItsWay
StoppedIsFree == machineAt.at \in {"hush", "silence"} => busy = FALSE
(* A channel that sounds, or is about to, has a stream.                      *)
ChannelsAreHeard == Plays => \A c \in Channels : channels[c].stage # "off" => sound = "open"
RenderedIsOpen == machineAt.at = "key" /\ machineAt.rendered = TRUE => sound = "open"

AudioInv == Fields /\ LocksAreBrief /\ BusyHasTone /\ StoppedIsFree /\ ChannelsAreHeard /\ RenderedIsOpen

-----------------------------------------------------------------------------
LEMMA AudioBegins == AudioInit => AudioInv
<1>. SUFFICES ASSUME AudioInit PROVE AudioInv
  OBVIOUS
<1>. USE DEF AudioInit, AudioStart
<1>1. Fields
  BY DEF Fields, ChannelsFit, MachineFields, ToneFields, ChannelFields, Unkeyed, Silent
<1>2. LocksAreBrief /\ BusyHasTone
  BY DEF LocksAreBrief, BusyHasTone
<1>3. StoppedIsFree /\ RenderedIsOpen
  BY DEF StoppedIsFree, RenderedIsOpen, Idle
<1>4. ChannelsAreHeard
  BY DEF ChannelsAreHeard, Unkeyed
<1>5. QED
  BY <1>1, <1>2, <1>3, <1>4 DEF AudioInv

(* What an envelope does leaves a channel that is off as it is.              *)
LEMMA SoundedFields ==
  ASSUME NEW c, ChannelFields(c)
  PROVE  ChannelFields(Sounded(c)) /\ (c.stage = "off" => Sounded(c).stage = "off")
<1>1. CASE c.stage = "attack"
  BY <1>1 DEF Sounded, ChannelFields
<1>2. CASE c.stage = "decay"
  BY <1>2 DEF Sounded, ChannelFields
<1>3. CASE c.stage = "release"
  BY <1>3 DEF Sounded, ChannelFields
<1>4. CASE c.stage \notin {"attack", "decay", "release"}
  BY <1>4 DEF Sounded, ChannelFields
<1>5. QED
  BY <1>1, <1>2, <1>3, <1>4

(* A key turns a channel on only where the host renders it.                  *)
LEMMA KeyedFields ==
  ASSUME NEW c, NEW command, NEW rendered, ChannelFields(c)
  PROVE  /\ ChannelFields(KeyedTo(c, command, rendered))
         /\ KeyedTo(c, command, rendered).stage # "off" => c.stage # "off" \/ rendered
<1>1. CASE command = "on" /\ rendered
  BY <1>1 DEF KeyedTo, ChannelFields
<1>2. CASE command = "off" /\ c.stage # "off"
  BY <1>2 DEF KeyedTo, ChannelFields
<1>3. CASE command = "stop"
  BY <1>3 DEF KeyedTo, ChannelFields
<1>4. CASE ~(command = "on" /\ rendered) /\ ~(command = "off" /\ c.stage # "off") /\ command # "stop"
  BY <1>4 DEF KeyedTo, ChannelFields
<1>5. QED
  BY <1>1, <1>2, <1>3, <1>4

-----------------------------------------------------------------------------
(* The machine's thread.                                                     *)

LEMMA PlayKeeps ==
  ASSUME AudioInv, NEW d, Commands(Play(d))
  PROVE  AudioInv'
<1>1. /\ machineAt = Idle
      /\ \/ busy' = busy /\ machineAt' = machineAt
         \/ busy' = TRUE /\ Toning(machineAt)' /\ machineAt'.at = "open" /\ machineAt'.then = "tone"
      /\ UNCHANGED <<toneAt, sound, audioLock, channelLock, speakerAt, hostAt, channels>>
  BY DEF Commands, Play, Toning
<1>. USE DEF AudioInv
<1>2. Fields'
  BY <1>1 DEF Fields, ChannelsFit, MachineFields, ToneFields
<1>3. LocksAreBrief' /\ StoppedIsFree'
  BY <1>1 DEF LocksAreBrief, StoppedIsFree
<1>4. BusyHasTone'
  BY <1>1 DEF BusyHasTone, Plays, ToneOnItsWay, Idle
<1>5. ChannelsAreHeard' /\ RenderedIsOpen'
  BY <1>1 DEF ChannelsAreHeard, RenderedIsOpen, Plays
<1>6. QED
  BY <1>2, <1>3, <1>4, <1>5

LEMMA StopKeeps ==
  ASSUME AudioInv, NEW then, Commands(StopTone(then))
  PROVE  AudioInv'
<1>1. /\ busy' = FALSE
      /\ Hushing(machineAt)' /\ machineAt'.at \in {"hush", "silence"}
      /\ UNCHANGED <<toneAt, sound, audioLock, channelLock, speakerAt, hostAt, channels>>
  <2>1. busy \in BOOLEAN
    BY DEF AudioInv, Fields
  <2>2. CASE then = "reset" /\ busy = FALSE
    BY <2>2 DEF Commands, StopTone, Hushing
  <2>3. CASE ~(then = "reset" /\ busy = FALSE)
    BY <2>1, <2>3 DEF Commands, StopTone, Hushing
  <2>4. QED
    BY <2>2, <2>3
<1>. USE DEF AudioInv
<1>2. Fields'
  BY <1>1 DEF Fields, ChannelsFit, MachineFields, ToneFields
<1>3. LocksAreBrief' /\ StoppedIsFree' /\ BusyHasTone'
  BY <1>1 DEF LocksAreBrief, StoppedIsFree, BusyHasTone
<1>4. ChannelsAreHeard' /\ RenderedIsOpen'
  BY <1>1 DEF ChannelsAreHeard, RenderedIsOpen, Plays
<1>5. QED
  BY <1>2, <1>3, <1>4

LEMMA KeyKeeps ==
  ASSUME AudioInv, NEW c, NEW command, Commands(KeyCommand(c, command))
  PROVE  AudioInv'
<1>. USE DEF AudioInv, Commands, KeyCommand, Idle
<1>1. Fields'
  BY DEF Fields, ChannelsFit, MachineFields, ToneFields, Keying
<1>2. LocksAreBrief' /\ StoppedIsFree'
  BY DEF LocksAreBrief, StoppedIsFree
<1>3. BusyHasTone'
  BY DEF BusyHasTone, Plays, ToneOnItsWay
<1>4. ChannelsAreHeard' /\ RenderedIsOpen'
  BY DEF ChannelsAreHeard, RenderedIsOpen, Plays
<1>5. QED
  BY <1>1, <1>2, <1>3, <1>4

LEMMA EnvelopeFields ==
  ASSUME NEW c, NEW e, ChannelFields(c)
  PROVE  ChannelFields([c EXCEPT !.envelope = e]) /\ [c EXCEPT !.envelope = e].stage = c.stage
  BY DEF ChannelFields

LEMMA EnvelopeKeeps ==
  ASSUME AudioInv, NEW c, NEW e, Commands(SetEnvelope(c, e))
  PROVE  AudioInv'
<1>. USE DEF AudioInv, Commands, SetEnvelope, Idle
<1>1. \A k \in Channels : channels'[k] \in {channels[k], [channels[k] EXCEPT !.envelope = e]}
  BY DEF Fields, ChannelsFit
<1>2. ASSUME NEW k \in Channels
      PROVE  ChannelFields(channels'[k]) /\ channels'[k].stage = channels[k].stage
  <2>1. ChannelFields(channels[k]) /\ channels'[k] \in {channels[k], [channels[k] EXCEPT !.envelope = e]}
    BY <1>1 DEF Fields, ChannelsFit
  <2>2. QED
    BY <2>1, EnvelopeFields
<1>3. channels' = [k \in Channels |-> channels'[k]]
  BY DEF Fields, ChannelsFit
<1>4. ChannelsFit'
  BY <1>2, <1>3 DEF ChannelsFit
<1>5. Fields'
  BY <1>4 DEF Fields, MachineFields, ToneFields
<1>6. LocksAreBrief' /\ StoppedIsFree' /\ BusyHasTone' /\ RenderedIsOpen'
  BY DEF LocksAreBrief, StoppedIsFree, BusyHasTone, RenderedIsOpen, Plays, ToneOnItsWay
<1>7. ChannelsAreHeard'
  BY <1>2 DEF ChannelsAreHeard, Plays
<1>8. QED
  BY <1>5, <1>6, <1>7

LEMMA OpensKeeps ==
  ASSUME AudioInv, Opens
  PROVE  AudioInv'
<1>. USE DEF AudioInv, Opens
<1>1. Fields'
  BY DEF Fields, ChannelsFit, MachineFields, ToneFields, Toning, Keying, Hushing, Idle
<1>2. LocksAreBrief' /\ StoppedIsFree' /\ RenderedIsOpen'
  BY DEF LocksAreBrief, StoppedIsFree, RenderedIsOpen, Fields, MachineFields, Toning, Keying, Hushing, Idle
<1>3. BusyHasTone'
  BY DEF BusyHasTone, Plays, ToneOnItsWay, Fields, MachineFields, Toning, Keying, Hushing, Idle
<1>4. ChannelsAreHeard'
  BY DEF ChannelsAreHeard, Plays
<1>5. QED
  BY <1>1, <1>2, <1>3, <1>4

LEMMA StartsKeeps ==
  ASSUME AudioInv, Starts
  PROVE  AudioInv'
<1>. USE DEF AudioInv, Starts
<1>1. Fields'
  BY DEF Fields, ChannelsFit, MachineFields, ToneFields, Toning, Keying, Hushing, Idle
<1>2. LocksAreBrief' /\ StoppedIsFree' /\ RenderedIsOpen'
  BY DEF LocksAreBrief, StoppedIsFree, RenderedIsOpen, Fields, MachineFields, Toning, Keying, Hushing, Idle
<1>3. BusyHasTone'
  BY DEF BusyHasTone, Plays, ToneOnItsWay, Fields, MachineFields, Toning, Keying, Hushing, Idle
<1>4. ChannelsAreHeard'
  BY DEF ChannelsAreHeard, Plays
<1>5. QED
  BY <1>1, <1>2, <1>3, <1>4

LEMMA SinkKeeps ==
  ASSUME AudioInv, SinkTone
  PROVE  AudioInv'
<1>1. /\ machineAt' = Idle
      /\ \/ busy' = FALSE /\ toneAt' = toneAt
         \/ busy' = busy /\ ToneFields' /\ toneAt'.active = TRUE
      /\ UNCHANGED <<sound, audioLock, channelLock, hostAt, channels>>
  BY DEF SinkTone, ToneFinished, ToneFields
<1>. USE DEF AudioInv
<1>2. Fields'
  BY <1>1 DEF Fields, ChannelsFit, MachineFields, ToneFields
<1>3. LocksAreBrief' /\ StoppedIsFree' /\ RenderedIsOpen'
  BY <1>1 DEF LocksAreBrief, StoppedIsFree, RenderedIsOpen, Idle
<1>4. BusyHasTone'
  BY <1>1 DEF BusyHasTone
<1>5. ChannelsAreHeard'
  BY <1>1 DEF ChannelsAreHeard, Plays
<1>6. QED
  BY <1>2, <1>3, <1>4, <1>5

LEMMA HushKeeps ==
  ASSUME AudioInv, SinkSilence
  PROVE  AudioInv'
<1>. USE DEF AudioInv, SinkSilence
<1>1. Fields'
  BY DEF Fields, ChannelsFit, MachineFields, ToneFields, Hushing
<1>2. busy = FALSE
  BY DEF StoppedIsFree
<1>3. LocksAreBrief' /\ StoppedIsFree' /\ RenderedIsOpen' /\ BusyHasTone'
  BY <1>2 DEF LocksAreBrief, StoppedIsFree, RenderedIsOpen, BusyHasTone
<1>4. ChannelsAreHeard'
  BY DEF ChannelsAreHeard, Plays
<1>5. QED
  BY <1>1, <1>3, <1>4

LEMMA SilenceKeeps ==
  ASSUME AudioInv, SilenceChannels
  PROVE  AudioInv'
<1>. USE DEF AudioInv, SilenceChannels, Idle
<1>1. busy = FALSE
  BY DEF StoppedIsFree
<1>2. channels' = channels \/ channels' = [c \in Channels |-> Unkeyed]
  OBVIOUS
<1>3. Fields'
  BY <1>2 DEF Fields, ChannelsFit, MachineFields, ToneFields, ChannelFields, Unkeyed
<1>4. LocksAreBrief' /\ StoppedIsFree' /\ RenderedIsOpen' /\ BusyHasTone'
  BY <1>1 DEF LocksAreBrief, StoppedIsFree, RenderedIsOpen, BusyHasTone
<1>5. ChannelsAreHeard'
  BY <1>2 DEF ChannelsAreHeard, Plays, Unkeyed
<1>6. QED
  BY <1>3, <1>4, <1>5

LEMMA AnswerKeeps ==
  ASSUME AudioInv, KeyAnswered
  PROVE  AudioInv'
<1>. USE DEF AudioInv, KeyAnswered
<1>1. Keying(machineAt)
  BY DEF Fields, ChannelsFit, MachineFields, Toning, Hushing, Idle
<1>2. /\ Keying(machineAt)' /\ machineAt'.at = "key" /\ machineAt'.then = "key"
      /\ machineAt'.rendered = (sound = "open")
  BY <1>1 DEF Keying
<1>3. Fields'
  BY <1>2 DEF Fields, ChannelsFit, MachineFields, ToneFields
<1>4. LocksAreBrief' /\ StoppedIsFree' /\ RenderedIsOpen'
  BY <1>2 DEF LocksAreBrief, StoppedIsFree, RenderedIsOpen
<1>5. BusyHasTone'
  BY DEF BusyHasTone, Plays, ToneOnItsWay
<1>6. ChannelsAreHeard'
  BY DEF ChannelsAreHeard, Plays
<1>7. QED
  BY <1>3, <1>4, <1>5, <1>6

LEMMA TakenKeeps ==
  ASSUME AudioInv, KeyTaken
  PROVE  AudioInv'
<1>. DEFINE To(c) == KeyedTo(c, machineAt.command, machineAt.rendered)
<1>. USE DEF AudioInv
<1>1. machineAt.at = "key" /\ machineAt.rendered \in BOOLEAN
  BY DEF KeyTaken, Fields, MachineFields, Idle, Toning, Hushing, Keying
<1>2. /\ channels' = [c \in Channels |-> channels'[c]]
      /\ \A c \in Channels : channels'[c] \in {channels[c], To(channels[c])}
  BY DEF KeyTaken, Fields, ChannelsFit
<1>3. ASSUME NEW c \in Channels
      PROVE  ChannelFields(channels[c])
  BY DEF Fields, ChannelsFit
<1>4. ASSUME NEW c \in Channels
      PROVE  ChannelFields(channels'[c])
  <2>1. ChannelFields(channels[c])
    BY <1>3
  <2>2. ChannelFields(To(channels[c]))
    BY <1>3, KeyedFields
  <2>3. channels'[c] = channels[c] \/ channels'[c] = To(channels[c])
    BY <1>2
  <2>4. QED
    BY ONLY <2>1, <2>2, <2>3, Zenon
<1>5. ASSUME NEW c \in Channels, channels'[c].stage # "off"
      PROVE  channels[c].stage # "off" \/ machineAt.rendered = TRUE
  <2>1. To(channels[c]).stage # "off" => channels[c].stage # "off" \/ machineAt.rendered
    BY <1>3, KeyedFields
  <2>2. channels'[c] = channels[c] \/ channels'[c] = To(channels[c])
    BY <1>2
  <2>3. CASE channels'[c] = channels[c]
    BY <1>5, <2>3
  <2>4. CASE channels'[c] = To(channels[c])
    <3>1. To(channels[c]).stage # "off"
      BY <1>5, <2>4
    <3>2. QED
      BY <1>1, <2>1, <3>1
  <2>5. QED
    BY <2>2, <2>3, <2>4
<1>6. ChannelsFit'
  BY <1>2, <1>4 DEF ChannelsFit
<1>7. machineAt' = Idle /\ channelLock' = "nobody" /\ UNCHANGED <<busy, toneAt, sound, audioLock, speakerAt, hostAt>>
  BY DEF KeyTaken
<1>8. Fields'
  BY <1>6, <1>7 DEF Fields, MachineFields, ToneFields
<1>9. LocksAreBrief' /\ StoppedIsFree' /\ RenderedIsOpen' /\ BusyHasTone'
  BY <1>1, <1>7 DEF LocksAreBrief, StoppedIsFree, RenderedIsOpen, BusyHasTone, Plays, ToneOnItsWay, Idle
<1>10. ChannelsAreHeard'
  BY <1>1, <1>5, <1>7 DEF ChannelsAreHeard, RenderedIsOpen, Plays
<1>11. QED
  BY <1>8, <1>9, <1>10

-----------------------------------------------------------------------------
(* The audio thread and the host.                                            *)

LEMMA CallbackKeeps ==
  ASSUME AudioInv, CallbackBegins \/ CallbackLocks
  PROVE  AudioInv'
<1>. USE DEF AudioInv, CallbackBegins, CallbackLocks, machineVars
<1>1. Fields'
  BY DEF Fields, ChannelsFit, MachineFields, ToneFields
<1>2. LocksAreBrief' /\ StoppedIsFree' /\ RenderedIsOpen' /\ BusyHasTone'
  BY DEF LocksAreBrief, StoppedIsFree, RenderedIsOpen, BusyHasTone, Plays, ToneOnItsWay
<1>3. ChannelsAreHeard'
  BY DEF ChannelsAreHeard, Plays
<1>4. QED
  BY <1>1, <1>2, <1>3

LEMMA ToneKeeps ==
  ASSUME AudioInv, ToneSounds
  PROVE  AudioInv'
<1>. USE DEF AudioInv, ToneSounds, Silent
<1>1. /\ ToneFields'
      /\ toneAt.active = TRUE => toneAt'.active = TRUE \/ speakerAt' = "over"
  BY DEF Fields, ChannelsFit, ToneFields
<1>2. Fields'
  BY <1>1 DEF Fields, ChannelsFit, MachineFields
<1>3. LocksAreBrief' /\ StoppedIsFree' /\ RenderedIsOpen'
  BY DEF LocksAreBrief, StoppedIsFree, RenderedIsOpen
<1>4. BusyHasTone'
  BY <1>1 DEF BusyHasTone, Plays, ToneOnItsWay
<1>5. ChannelsAreHeard'
  BY DEF ChannelsAreHeard, Plays
<1>6. QED
  BY <1>2, <1>3, <1>4, <1>5

LEMMA EndKeeps ==
  ASSUME AudioInv, ToneEnds
  PROVE  AudioInv'
<1>. USE DEF AudioInv, ToneEnds, ToneFinished, machineVars
<1>1. Fields'
  BY DEF Fields, ChannelsFit, MachineFields, ToneFields
<1>2. LocksAreBrief' /\ StoppedIsFree' /\ RenderedIsOpen' /\ BusyHasTone'
  BY DEF LocksAreBrief, StoppedIsFree, RenderedIsOpen, BusyHasTone
<1>3. ChannelsAreHeard'
  BY DEF ChannelsAreHeard, Plays
<1>4. QED
  BY <1>1, <1>2, <1>3

LEMMA RenderKeeps ==
  ASSUME AudioInv, RendersChannels
  PROVE  AudioInv'
<1>. USE DEF AudioInv, RendersChannels, machineVars
<1>1. \A c \in Channels : ChannelFields(channels[c])
  BY DEF Fields, ChannelsFit
<1>2. /\ channels' = [c \in Channels |-> channels'[c]]
      /\ \A c \in Channels : channels'[c] \in {channels[c], Sounded(channels[c])}
  BY DEF Fields, ChannelsFit
<1>3. ASSUME NEW c \in Channels
      PROVE  ChannelFields(channels'[c]) /\ (channels'[c].stage # "off" => channels[c].stage # "off")
  <2>1. CASE channels'[c] = channels[c]
    BY <2>1 DEF Fields, ChannelsFit
  <2>2. CASE channels'[c] = Sounded(channels[c])
    <3>1. ChannelFields(channels[c])
      BY <1>1
    <3>2. /\ ChannelFields(Sounded(channels[c]))
          /\ channels[c].stage = "off" => Sounded(channels[c]).stage = "off"
      BY <3>1, SoundedFields
    <3>3. QED
      BY ONLY <2>2, <3>2, Zenon
  <2>3. QED
    BY <1>2, <2>1, <2>2
<1>4. ChannelsFit'
  BY <1>2, <1>3 DEF ChannelsFit
<1>5. Fields'
  BY <1>4 DEF Fields, MachineFields, ToneFields
<1>6. LocksAreBrief' /\ StoppedIsFree' /\ RenderedIsOpen' /\ BusyHasTone'
  BY DEF LocksAreBrief, StoppedIsFree, RenderedIsOpen, BusyHasTone, Plays, ToneOnItsWay
<1>7. ChannelsAreHeard'
  BY <1>3 DEF ChannelsAreHeard, Plays
<1>8. QED
  BY <1>5, <1>6, <1>7

LEMMA LeavingKeeps ==
  ASSUME AudioInv, HostLeaves \/ StreamCloses
  PROVE  AudioInv'
<1>. USE DEF AudioInv, HostLeaves, StreamCloses, machineVars
<1>1. Fields'
  BY DEF Fields, ChannelsFit, MachineFields, ToneFields, Silent
<1>2. LocksAreBrief' /\ StoppedIsFree' /\ RenderedIsOpen'
  BY DEF LocksAreBrief, StoppedIsFree, RenderedIsOpen, Idle
<1>3. BusyHasTone' /\ ChannelsAreHeard'
  BY DEF BusyHasTone, ChannelsAreHeard, Plays
<1>4. QED
  BY <1>1, <1>2, <1>3

LEMMA AudioStep == AudioInv /\ [AudioNext]_audioVars => AudioInv'
<1>1. ASSUME AudioInv, MachinePlays
      PROVE  AudioInv'
  BY <1>1, PlayKeeps, StopKeeps, KeyKeeps, EnvelopeKeeps DEF MachinePlays
<1>2. ASSUME AudioInv, MachineWaits
      PROVE  AudioInv'
  BY <1>2, OpensKeeps, StartsKeeps, SinkKeeps, HushKeeps, SilenceKeeps, AnswerKeeps, TakenKeeps DEF MachineWaits
<1>3. ASSUME AudioInv, SpeakerPlays
      PROVE  AudioInv'
  BY <1>3, CallbackKeeps, ToneKeeps, EndKeeps, RenderKeeps DEF SpeakerPlays
<1>4. ASSUME AudioInv, UNCHANGED audioVars
      PROVE  AudioInv'
  BY <1>4 DEF audioVars, AudioInv, Fields, ChannelsFit, MachineFields, ToneFields, LocksAreBrief, BusyHasTone, StoppedIsFree,
     ChannelsAreHeard, RenderedIsOpen, Plays, ToneOnItsWay
<1>5. QED
  BY <1>1, <1>2, <1>3, <1>4, LeavingKeeps DEF AudioNext

(* The program's waits for a tone and for a channel end, and no thread waits *)
(* for the other (AudioDevice and SdlAudio, with a lock each).               *)
THEOREM SoundNeverSticks == AudioSpec => []SoundGoesOn
<1>1. AudioInv => SoundGoesOn
  <2>. SUFFICES ASSUME AudioInv PROVE SoundGoesOn
    OBVIOUS
  <2>1. SomebodyPlays
    BY DEF AudioInv, BusyHasTone, ChannelsAreHeard, SomebodyPlays, Plays, ToneOnItsWay, Idle
  <2>2. NoCircleOfWaits
    BY DEF AudioInv, LocksAreBrief, NoCircleOfWaits, SpeakerWaitsForMachine
  <2>3. QED
    BY <2>1, <2>2 DEF SoundGoesOn
<1>2. QED
  BY <1>1, AudioBegins, AudioStep, PTL DEF AudioSpec

-----------------------------------------------------------------------------
(* Host files                                                                *)

(* The strengthening.  Whatever has a name or is open has a content, what is *)
(* open has a place in it, and only a stream that writes holds bytes.        *)
Octets == Bytes \cup {0, 1}
Listed ==
  \A p \in DOMAIN tree :
    /\ tree[p].dir \in BOOLEAN /\ tree[p].reads \in BOOLEAN /\ tree[p].writes \in BOOLEAN
    /\ ~tree[p].dir => tree[p].inode \in DOMAIN inodes
Filed ==
  /\ inodes = [i \in DOMAIN inodes |-> inodes[i]] /\ \A i \in DOMAIN inodes : inodes[i] \in Seq(Octets)
  /\ DOMAIN inodes \subseteq Nat /\ IsFiniteSet(DOMAIN inodes)
FileType == [inode : Nat, pos : Nat, writer : BOOLEAN, append : BOOLEAN, held : Seq(Octets)]
OpenFiles(f) == f \in FileType /\ (~f.writer => f.held = <<>>)
Slots == fds = [h \in 0..(MaxOpenFiles - 1) |-> fds[h]] /\ \A h \in DOMAIN fds : OpenFiles(fds[h])
Held == \A h \in DOMAIN fds : fds[h] # Closed => fds[h].inode \in DOMAIN inodes
FsInv == Listed /\ Filed /\ Slots /\ Held

(* What a step must keep, and the two action properties say of it.           *)
Safe == FsInv' /\ Contained /\ NeverReplaces

LEMMA ItsOwnPrefix ==
  ASSUME NEW s PROVE IsPrefix(s, s)
<1>1. Len(s) <= Len(s)
  OBVIOUS
<1> QED
  BY <1>1 DEF IsPrefix

(* A command that only answers.                                              *)
LEMMA AnswersOnly ==
  ASSUME FsInv, UNCHANGED <<tree, inodes, fds>> PROVE Safe
BY DEF FsInv, Listed, Filed, Slots, Held, OpenFiles, Safe, Contained, NeverReplaces

(* What is written at a place changes nothing before it and cuts nothing.    *)
LEMMA FilledFacts ==
  ASSUME NEW content \in Seq(Octets), NEW pos \in Nat, NEW some \in Seq(Octets)
  PROVE  /\ Filled(content, pos, some) \in Seq(Octets)
         /\ Len(Filled(content, pos, some)) >= Len(content)
         /\ \A m \in 1..Len(content) : m <= pos => Filled(content, pos, some)[m] = content[m]
<1> DEFINE n == IF pos + Len(some) > Len(content) THEN pos + Len(some) ELSE Len(content)
           new == Filled(content, pos, some)
<1>0. CASE some = <<>>
  BY <1>0 DEF Filled
<1>1. Len(content) \in Nat /\ Len(some) \in Nat /\ n \in Nat /\ n >= Len(content)
  OBVIOUS
<1>2. \A i \in 1..n : (IF i \in (pos + 1)..(pos + Len(some)) THEN some[i - pos]
                       ELSE IF i <= Len(content) THEN content[i] ELSE 0) \in Octets
  <2>1. ASSUME NEW i \in 1..n, i \in (pos + 1)..(pos + Len(some)) PROVE some[i - pos] \in Octets
    <3>1. i - pos \in 1..Len(some)
      BY <1>1, <2>1
    <3> QED
      BY <3>1
  <2>2. ASSUME NEW i \in 1..n, i <= Len(content) PROVE content[i] \in Octets
    BY <1>1, <2>2
  <2> QED
    BY <2>1, <2>2 DEF Octets
<1>3. CASE some # <<>>
  <2>1. new = [i \in 1..n |-> IF i \in (pos + 1)..(pos + Len(some)) THEN some[i - pos]
                             ELSE IF i <= Len(content) THEN content[i] ELSE 0]
    BY <1>3 DEF Filled
  <2> HIDE DEF n
  <2>2. new \in Seq(Octets) /\ Len(new) = n
    BY <1>1, <1>2, <2>1
  <2>3. \A m \in 1..Len(content) : m <= pos => new[m] = content[m]
    BY <1>1, <2>1
  <2> QED
    BY <1>1, <2>2, <2>3
<1> QED
  BY <1>0, <1>3

(* A sequence that is kept up to its end is a prefix.                        *)
LEMMA KeptToItsEnd ==
  ASSUME NEW old \in Seq(Octets), NEW new \in Seq(Octets), Len(new) >= Len(old), \A n \in 1..Len(old) : new[n] = old[n]
  PROVE  IsPrefix(old, new)
<1>1. SubSeq(old, 1, Len(old)) = SubSeq(new, 1, Len(old))
  OBVIOUS
<1> QED
  BY <1>1 DEF IsPrefix

(* What may have come of a file whose stream was to write from a place on.   *)
Fits(fd, content, place, o) ==
  /\ o = [content |-> o.content, fd |-> o.fd, ok |-> o.ok] /\ o.ok \in BOOLEAN
  /\ o.content \in Seq(Octets) /\ Len(o.content) >= Len(content)
  /\ \A n \in 1..place : o.content[n] = content[n]
  /\ o.fd \in FileType /\ o.fd.inode = fd.inode /\ o.fd.writer = fd.writer /\ o.fd.append = fd.append
  /\ o.ok => o.fd.held = <<>>

LEMMA FilledKeeps ==
  ASSUME NEW content \in Seq(Octets), NEW at \in Nat, NEW some \in Seq(Octets), NEW new, new = Filled(content, at, some)
  PROVE  /\ new \in Seq(Octets) /\ Len(new) >= Len(content)
         /\ \A m \in 1..Lesser(at, Len(content)) : new[m] = content[m]
<1>1. \A m \in 1..Lesser(at, Len(content)) : m \in 1..Len(content) /\ m <= at
  BY DEF Lesser
<1> QED
  BY <1>1, FilledFacts

LEMMA PouredFits ==
  ASSUME NEW fd \in FileType, NEW content \in Seq(Octets), NEW at \in Nat, NEW some \in Seq(Octets),
         NEW holds \in Seq(Octets), NEW ok \in BOOLEAN, ok => holds = <<>>
  PROVE  /\ Fits(fd, content, Lesser(at, Len(content)), Poured(fd, content, at, some, holds, ok))
         /\ Poured(fd, content, at, some, holds, ok).fd.pos = at + Len(some)
         /\ Poured(fd, content, at, some, holds, ok).fd.pos >= at
<1> DEFINE f == [fd EXCEPT !.pos = at + Len(some), !.held = holds]
           c == Filled(content, at, some)
<1>1. at + Len(some) \in Nat /\ at + Len(some) >= at
  OBVIOUS
<1>2. f \in FileType /\ f.inode = fd.inode /\ f.writer = fd.writer /\ f.append = fd.append /\ f.pos = at + Len(some) /\ f.held = holds
  BY <1>1 DEF FileType
<1>3. c \in Seq(Octets) /\ Len(c) >= Len(content) /\ \A m \in 1..Lesser(at, Len(content)) : c[m] = content[m]
  BY FilledKeeps
<1>4. Poured(fd, content, at, some, holds, ok) = [content |-> c, fd |-> f, ok |-> ok]
  BY DEF Poured
<1> HIDE DEF f, c
<1> QED
  BY <1>1, <1>2, <1>3, <1>4 DEF Fits

LEMMA PouringFits ==
  ASSUME NEW fd \in FileType, NEW content \in Seq(Octets), NEW at \in Nat, NEW some \in Seq(Octets),
         NEW o \in Pourings(fd, content, at, some)
  PROVE  /\ Fits(fd, content, Lesser(at, Len(content)), o)
         /\ o.fd.pos >= at
         /\ fd.held = <<>> /\ some = <<>> => o.ok /\ o.content = content /\ o.fd.pos = at
<1> DEFINE all == fd.held \o some
<1>1. fd.held \in Seq(Octets) /\ all \in Seq(Octets) /\ Len(all) \in Nat /\ <<>> \in Seq(Octets)
      /\ (fd.held = <<>> /\ some = <<>> => all = <<>>)
  BY DEF FileType
<1>2. o \in {Poured(fd, content, at, all, <<>>, TRUE)}
              \cup {Poured(fd, content, at, SubSeq(all, 1, k), fd.held, FALSE) : k \in 0..(Len(all) - 1)}
              \cup {Poured(fd, content, at, SubSeq(all, 1, k), all, FALSE) : k \in 0..(Len(all) - 1)}
  BY DEF Pourings
<1> HIDE DEF all
<1>3. CASE o = Poured(fd, content, at, all, <<>>, TRUE)
  <2> DEFINE none == <<>>
             taken == TRUE
  <2>1. all \in Seq(Octets) /\ none \in Seq(Octets) /\ o = Poured(fd, content, at, all, none, taken)
    BY <1>1, <1>3
  <2>2. taken \in BOOLEAN /\ (taken => none = <<>>)
    OBVIOUS
  <2> HIDE DEF none, taken
  <2>3. Fits(fd, content, Lesser(at, Len(content)), o) /\ o.fd.pos >= at
    BY <2>1, <2>2, PouredFits
  <2>4. o.ok /\ (all = <<>> => o.content = content)
    BY <1>3 DEF Poured, Filled
  <2>5. all = <<>> => o.fd.pos = at
    <3>1. o.fd = [fd EXCEPT !.pos = at + Len(all), !.held = <<>>]
      BY <1>3 DEF Poured
    <3>2. o.fd.pos = at + Len(all)
      BY <3>1 DEF FileType
    <3> QED
      BY <3>2
  <2> QED
    BY <1>1, <2>3, <2>4, <2>5
<1>4. ASSUME NEW k \in 0..(Len(all) - 1), NEW h \in {fd.held, all}, o = Poured(fd, content, at, SubSeq(all, 1, k), h, FALSE)
      PROVE  Fits(fd, content, Lesser(at, Len(content)), o) /\ o.fd.pos >= at /\ all # <<>>
  <2> DEFINE taken == FALSE
  <2>1. SubSeq(all, 1, k) \in Seq(Octets) /\ h \in Seq(Octets) /\ all # <<>>
    BY <1>1
  <2>2. taken \in BOOLEAN /\ (taken => h = <<>>) /\ o = Poured(fd, content, at, SubSeq(all, 1, k), h, taken)
    BY <1>4
  <2> HIDE DEF taken
  <2> QED
    BY <2>1, <2>2, PouredFits
<1>5. (fd.held = <<>> /\ some = <<>>) => ~\E k \in 0..(Len(all) - 1) : TRUE
  BY <1>1
<1> QED
  BY <1>1, <1>2, <1>3, <1>4, <1>5

(* An open file with its content.                                            *)
LEMMA OpenHasContent ==
  ASSUME FsInv, NEW h \in DOMAIN fds, fds[h] # Closed
  PROVE  /\ OpenFiles(fds[h]) /\ fds[h] \in FileType /\ fds[h].pos \in Nat /\ fds[h].writer \in BOOLEAN /\ fds[h].append \in BOOLEAN
         /\ fds[h].held \in Seq(Octets)
         /\ fds[h].inode \in DOMAIN inodes /\ inodes[fds[h].inode] \in Seq(Octets) /\ Len(inodes[fds[h].inode]) \in Nat
  BY DEF FsInv, Slots, Held, Filed, OpenFiles, FileType
LEMMA OpenAtIsOpen ==
  ASSUME FsInv, OpenAt # Closed
  PROVE  handle \in DOMAIN fds /\ OpenAt = fds[handle] /\ fds[handle] # Closed /\ Content = inodes[fds[handle].inode]
         /\ Place \in Nat /\ Place <= Len(Content)
         /\ (OpenAt.append /\ OpenAt.held = <<>> => Place = Len(Content))
         /\ (~(OpenAt.append /\ OpenAt.held = <<>>) => Place = Lesser(OpenAt.pos, Len(Content)))
<1>1. handle \in DOMAIN fds /\ OpenAt = fds[handle] /\ fds[handle] # Closed /\ Content = inodes[fds[handle].inode]
  BY DEF OpenAt, Content
<1>2. OpenAt.pos \in Nat /\ Len(Content) \in Nat
  BY <1>1, OpenHasContent
<1> QED
  BY <1>1, <1>2 DEF Place, Lesser

(* One file, open at one handle, is written to, moved in or closed.          *)
LEMMA SlotChanges ==
  ASSUME FsInv, NEW h \in DOMAIN fds, fds[h] # Closed, NEW c \in Seq(Octets), NEW f,
         OpenFiles(f), f = Closed \/ f.inode = fds[h].inode,
         inodes' = [inodes EXCEPT ![fds[h].inode] = c], fds' = [fds EXCEPT ![h] = f], UNCHANGED tree,
         fds[h].append /\ fds[h].held = <<>> => IsPrefix(inodes[fds[h].inode], c)
  PROVE  FsInv' /\ NeverReplaces
<1> DEFINE i == fds[h].inode
<1>1. i \in DOMAIN inodes
  BY OpenHasContent
<1>2. /\ DOMAIN inodes' = DOMAIN inodes /\ inodes'[i] = c /\ \A j \in DOMAIN inodes : j # i => inodes'[j] = inodes[j]
      /\ DOMAIN fds' = DOMAIN fds /\ fds'[h] = f /\ \A g \in DOMAIN fds : g # h => fds'[g] = fds[g]
  BY <1>1
<1> HIDE DEF i
<1>3. Filed'
  <2>1. inodes' = [j \in DOMAIN inodes' |-> inodes'[j]]
    BY DEF FsInv, Filed
  <2>2. QED
    BY <1>2, <2>1 DEF FsInv, Filed
<1>4. Slots'
  BY <1>2 DEF FsInv, Slots
<1>5. Held'
  BY <1>1, <1>2 DEF FsInv, Held, i
<1>6. Listed'
  BY <1>2 DEF FsInv, Listed
<1>7. NeverReplaces
  <2>1. ASSUME fds[h].append, fds[h].held = <<>>, NEW j \in DOMAIN inodes
        PROVE  IsPrefix(inodes[j], inodes'[j])
    BY <1>2, <2>1, ItsOwnPrefix DEF i
  <2>2. QED
    BY <1>2, <2>1 DEF NeverReplaces
<1> QED
  BY <1>3, <1>4, <1>5, <1>6, <1>7 DEF FsInv

(* A file settles before its stream does something else: nothing happens     *)
(* unless it holds bytes, and then it is open to be written.                 *)
LEMMA SettlingFits ==
  ASSUME FsInv, NEW h \in DOMAIN fds, fds[h] # Closed,
         NEW o \in Settlings(fds[h], inodes[fds[h].inode])
  PROVE  /\ Fits(fds[h], inodes[fds[h].inode], Lesser(fds[h].pos, Len(inodes[fds[h].inode])), o)
         /\ OpenFiles(o.fd) /\ o.fd.pos >= fds[h].pos
         /\ fds[h].held = <<>> => o.ok /\ o.content = inodes[fds[h].inode] /\ o.fd = fds[h]
         /\ fds[h].held # <<>> => fds[h].writer
<1> DEFINE fd == fds[h]
           content == inodes[fd.inode]
<1>1. fd \in FileType /\ OpenFiles(fd) /\ content \in Seq(Octets) /\ fd.pos \in Nat /\ <<>> \in Seq(Octets)
  BY OpenHasContent
<1>2. o \in Pourings(fd, content, fd.pos, <<>>)
  BY DEF Settlings
<1> HIDE DEF fd, content
<1>3. /\ Fits(fd, content, Lesser(fd.pos, Len(content)), o) /\ o.fd.pos >= fd.pos
      /\ fd.held = <<>> /\ <<>> = <<>> => o.ok /\ o.content = content /\ o.fd.pos = fd.pos
  <2> DEFINE none == <<>>
  <2>1. none \in Seq(Octets) /\ o \in Pourings(fd, content, fd.pos, none)
    BY <1>1, <1>2
  <2> HIDE DEF none
  <2>2. /\ Fits(fd, content, Lesser(fd.pos, Len(content)), o) /\ o.fd.pos >= fd.pos
        /\ fd.held = <<>> /\ none = <<>> => o.ok /\ o.content = content /\ o.fd.pos = fd.pos
    BY <1>1, <2>1, PouringFits
  <2> QED
    BY <2>2 DEF none
<1>4. fd.held = <<>> => o.fd = fd
  BY <1>1, <1>3 DEF Fits, FileType
<1>5. OpenFiles(o.fd)
  BY <1>1, <1>3, <1>4 DEF Fits, OpenFiles
<1> QED
  BY <1>1, <1>3, <1>4, <1>5 DEF fd, content, OpenFiles

(* A command on an open file that leaves it so is safe: it kept what is       *)
(* before its place, and what is before the end if it appends.                *)
LEMMA LeavingIsSafe ==
  ASSUME FsInv, OpenAt # Closed, NEW c \in Seq(Octets), NEW f, OpenFiles(f),
         inodes' = [inodes EXCEPT ![OpenAt.inode] = c], fds' = [fds EXCEPT ![handle] = f], UNCHANGED tree,
         f.inode = OpenAt.inode, f.writer = OpenAt.writer, f.append = OpenAt.append,
         Len(c) >= Len(Content), \A n \in 1..Place : c[n] = Content[n],
         c # Content => OpenAt.writer,
         result' < 0 => result' = ErrIo \/ OpenAt.held # <<>> \/ (c = Content /\ f = OpenAt)
  PROVE  Safe
<1>1. /\ handle \in DOMAIN fds /\ OpenAt = fds[handle] /\ fds[handle] # Closed /\ Content = inodes[fds[handle].inode]
      /\ (OpenAt.append /\ OpenAt.held = <<>> => Place = Len(Content))
  BY OpenAtIsOpen
<1>2. OpenAt \in FileType /\ OpenAt.inode \in DOMAIN inodes /\ Content \in Seq(Octets)
  BY <1>1, OpenHasContent
<1>3. OpenAt.append /\ OpenAt.held = <<>> => IsPrefix(Content, c)
  BY <1>1, <1>2, KeptToItsEnd
<1>4. FsInv' /\ NeverReplaces
  BY <1>1, <1>3, SlotChanges
<1>5. Contained
  <2>1. SUFFICES ASSUME result' < 0 PROVE Contained
    BY DEF Contained
  <2>2. /\ inodes'[OpenAt.inode] = c /\ \A j \in DOMAIN inodes : j # OpenAt.inode => inodes'[j] = inodes[j]
        /\ fds'[handle] = f /\ \A g \in DOMAIN fds : g # handle => fds'[g] = fds[g]
    BY <1>1, <1>2
  <2>3. f = [OpenAt EXCEPT !.pos = f.pos, !.held = f.held]
    BY <1>2 DEF OpenFiles, FileType
  <2>4. ASSUME NEW i \in DOMAIN inodes, inodes'[i] # inodes[i]
        PROVE  MayWrite(result') /\ i = OpenAt.inode /\ WritesOnFrom(i, Place)
    <3>1. i = OpenAt.inode /\ c # Content
      BY <1>1, <2>2, <2>4
    <3>2. MayWrite(result')
      BY <2>1, <3>1 DEF MayWrite
    <3>3. WritesOnFrom(i, Place)
      BY <1>1, <2>2, <3>1 DEF WritesOnFrom
    <3>4. QED
      BY <3>1, <3>2, <3>3
  <2>5. ASSUME NEW h \in DOMAIN fds, fds'[h] # fds[h]
        PROVE  /\ h = handle /\ (result' = ErrIo \/ OpenAt.held # <<>>)
               /\ fds'[h] = [fds[h] EXCEPT !.pos = fds'[h].pos, !.held = fds'[h].held]
    BY <1>1, <2>1, <2>2, <2>3, <2>5
  <2>6. QED
    BY <2>4, <2>5 DEF Contained
<1> QED
  BY <1>4, <1>5 DEF Safe

(* The slot of a file that is closed.                                        *)
LEMMA ClosingIsSafe ==
  ASSUME FsInv, NEW h \in DOMAIN fds, ClosesSlot(h) PROVE FsInv' /\ NeverReplaces
<1>1. CASE fds[h] = Closed
  BY <1>1, AnswersOnly DEF ClosesSlot, Safe
<1>2. CASE fds[h] # Closed
  <2>1. PICK o \in Settlings(fds[h], inodes[fds[h].inode]) :
          inodes' = [inodes EXCEPT ![fds[h].inode] = o.content] /\ fds' = [fds EXCEPT ![h] = Closed] /\ UNCHANGED tree
    BY <1>2 DEF ClosesSlot
  <2>2. /\ o.content \in Seq(Octets) /\ (fds[h].held = <<>> => o.content = inodes[fds[h].inode])
    BY <1>2, SettlingFits DEF Fits
  <2>3. OpenFiles(Closed)
    BY DEF OpenFiles, Closed, FileType
  <2>4. fds[h].held = <<>> => IsPrefix(inodes[fds[h].inode], o.content)
    BY <2>2, ItsOwnPrefix
  <2>5. QED
    BY <1>2, <2>1, <2>2, <2>3, <2>4, SlotChanges
<1> QED
  BY <1>1, <1>2
LEMMA CloseIsSafe ==
  ASSUME FsInv, CloseFile PROVE Safe
<1>1. CASE OpenAt = Closed
  BY <1>1, AnswersOnly DEF CloseFile, Answers
<1>2. CASE OpenAt # Closed
  <2>1. handle \in DOMAIN fds /\ ClosesSlot(handle) /\ ~(result' < 0)
    BY <1>2, OpenAtIsOpen DEF CloseFile
  <2>2. QED
    BY <2>1, ClosingIsSafe DEF Safe, Contained
<1> QED
  BY <1>1, <1>2

(* Where a stream that settled, or tried to, goes on to write, what was kept  *)
(* is still kept.                                                             *)
LEMMA PouringsFollow ==
  ASSUME NEW fd \in FileType, NEW content \in Seq(Octets), NEW place \in Nat, NEW o, Fits(fd, content, place, o),
         place <= Len(content), NEW at \in Nat, place <= at, NEW some \in Seq(Octets), NEW again \in Pourings(o.fd, o.content, at, some)
  PROVE  Fits(fd, content, place, again)
<1>1. o.fd \in FileType /\ o.content \in Seq(Octets) /\ Len(o.content) >= Len(content) /\ Len(o.content) \in Nat /\ Len(content) \in Nat
      /\ o.fd.inode = fd.inode /\ o.fd.writer = fd.writer /\ o.fd.append = fd.append
      /\ \A n \in 1..place : o.content[n] = content[n]
  BY DEF Fits
<1>2. Fits(o.fd, o.content, Lesser(at, Len(o.content)), again)
  BY <1>1, PouringFits
<1>3. \A n \in 1..place : n \in 1..Lesser(at, Len(o.content))
  BY <1>1 DEF Lesser
<1>4. again.content \in Seq(Octets) /\ Len(again.content) \in Nat /\ Len(again.content) >= Len(o.content)
  BY <1>2 DEF Fits
<1>5. Len(again.content) >= Len(content) /\ \A n \in 1..place : again.content[n] = content[n]
  BY <1>1, <1>2, <1>3, <1>4 DEF Fits
<1> QED
  BY <1>1, <1>2, <1>5 DEF Fits

LEMMA OpenAtSettles ==
  ASSUME FsInv, OpenAt # Closed, NEW o \in Settlings(OpenAt, Content)
  PROVE  /\ Fits(OpenAt, Content, Place, o) /\ OpenFiles(o.fd) /\ o.fd.pos \in Nat /\ o.fd.pos >= OpenAt.pos
         /\ OpenAt.held = <<>> => o.ok /\ o.content = Content /\ o.fd = OpenAt
         /\ OpenAt.held # <<>> => OpenAt.writer
<1>1. /\ handle \in DOMAIN fds /\ OpenAt = fds[handle] /\ fds[handle] # Closed /\ Content = inodes[fds[handle].inode]
      /\ (OpenAt.append /\ OpenAt.held = <<>> => Place = Len(Content))
      /\ (~(OpenAt.append /\ OpenAt.held = <<>>) => Place = Lesser(OpenAt.pos, Len(Content)))
  BY OpenAtIsOpen
<1>2. /\ Fits(OpenAt, Content, Lesser(OpenAt.pos, Len(Content)), o)
      /\ OpenFiles(o.fd) /\ o.fd.pos >= OpenAt.pos
      /\ OpenAt.held = <<>> => o.ok /\ o.content = Content /\ o.fd = OpenAt
      /\ OpenAt.held # <<>> => OpenAt.writer
  BY <1>1, SettlingFits
<1>3. o.fd.pos \in Nat
  BY <1>2 DEF OpenFiles, FileType
<1>4. Fits(OpenAt, Content, Place, o)
  <2>1. CASE OpenAt.held = <<>>
    BY <1>2, <2>1 DEF Fits
  <2>2. CASE OpenAt.held # <<>>
    BY <1>1, <1>2, <2>2
  <2> QED
    BY <2>1, <2>2
<1> QED
  BY <1>2, <1>3, <1>4

(* A command that settles and then stands elsewhere in the file.             *)
LEMMA MovingIsSafe ==
  ASSUME FsInv, OpenAt # Closed, NEW o \in Settlings(OpenAt, Content), NEW x \in Nat,
         inodes' = [inodes EXCEPT ![OpenAt.inode] = o.content], fds' = [fds EXCEPT ![handle] = [o.fd EXCEPT !.pos = x]], UNCHANGED tree,
         result' < 0 => result' = ErrIo \/ OpenAt.held # <<>> \/ x = OpenAt.pos
  PROVE  Safe
<1> DEFINE f == [o.fd EXCEPT !.pos = x]
<1>1. /\ Fits(OpenAt, Content, Place, o) /\ OpenFiles(o.fd)
      /\ OpenAt.held = <<>> => o.ok /\ o.content = Content /\ o.fd = OpenAt
      /\ OpenAt.held # <<>> => OpenAt.writer
  BY OpenAtSettles
<1>2. OpenFiles(f) /\ f.inode = OpenAt.inode /\ f.writer = OpenAt.writer /\ f.append = OpenAt.append
  BY <1>1 DEF Fits, OpenFiles, FileType
<1>3. OpenAt.held = <<>> /\ x = OpenAt.pos => f = OpenAt
  BY <1>1 DEF OpenFiles, FileType
<1>4. o.content \in Seq(Octets) /\ Len(o.content) >= Len(Content) /\ \A n \in 1..Place : o.content[n] = Content[n]
  BY <1>1 DEF Fits
<1> HIDE DEF f
<1>5. fds' = [fds EXCEPT ![handle] = f]
  BY DEF f
<1> QED
  BY <1>1, <1>2, <1>3, <1>4, <1>5, LeavingIsSafe

LEMMA LeavesWhere ==
  ASSUME NEW fd, NEW content, NEW place, NEW o, Fits(fd, content, place, o), NEW x, Leaves([o EXCEPT !.fd.pos = x])
  PROVE  /\ inodes' = [inodes EXCEPT ![OpenAt.inode] = o.content] /\ fds' = [fds EXCEPT ![handle] = [o.fd EXCEPT !.pos = x]]
         /\ UNCHANGED tree
<1>1. [o EXCEPT !.fd.pos = x].content = o.content /\ [o EXCEPT !.fd.pos = x].fd = [o.fd EXCEPT !.pos = x]
  BY DEF Fits
<1> QED
  BY <1>1 DEF Leaves

LEMMA ReadIsSafe ==
  ASSUME FsInv, NEW room \in Nat, ReadFile(room) PROVE Safe
<1>1. CASE OpenAt = Closed \/ room = 0
  BY <1>1, AnswersOnly DEF ReadFile, Answers
<1>2. CASE OpenAt # Closed /\ room # 0
  <2>1. PICK o \in Settlings(OpenAt, Content) :
          LET got == Lesser(room, IF o.fd.pos < Len(o.content) THEN Len(o.content) - o.fd.pos ELSE 0)
          IN  \/ o.ok /\ Leaves([o EXCEPT !.fd.pos = @ + got]) /\ result' = got
              \/ o.ok /\ (\E n \in 0..got : Leaves([o EXCEPT !.fd.pos = @ + n])) /\ result' = ErrIo
              \/ ~o.ok /\ (\E again \in Settlings(o.fd, o.content) : Leaves(again)) /\ result' = 0
    BY <1>2 DEF ReadFile
  <2> DEFINE got == Lesser(room, IF o.fd.pos < Len(o.content) THEN Len(o.content) - o.fd.pos ELSE 0)
  <2>2. /\ Fits(OpenAt, Content, Place, o) /\ OpenFiles(o.fd) /\ o.fd.pos \in Nat /\ o.fd.pos >= OpenAt.pos
        /\ OpenAt.held = <<>> => o.ok /\ o.content = Content /\ o.fd = OpenAt
        /\ OpenAt.held # <<>> => OpenAt.writer
    BY <1>2, OpenAtSettles
  <2>3. Len(o.content) \in Nat
    BY <2>2 DEF Fits
  <2>4. got \in Nat
    BY <2>2, <2>3 DEF Lesser
  <2> HIDE DEF got
  <2>5. ASSUME NEW n \in Nat, Leaves([o EXCEPT !.fd.pos = @ + n]), result' = ErrIo \/ ~(result' < 0)
        PROVE  Safe
    <3> DEFINE x == o.fd.pos + n
    <3>1. x \in Nat /\ Leaves([o EXCEPT !.fd.pos = x])
      BY <2>2, <2>5
    <3> HIDE DEF x
    <3>2. /\ inodes' = [inodes EXCEPT ![OpenAt.inode] = o.content] /\ fds' = [fds EXCEPT ![handle] = [o.fd EXCEPT !.pos = x]]
          /\ UNCHANGED tree
      BY <2>2, <3>1, LeavesWhere
    <3>3. QED
      BY <1>2, <2>5, <3>1, <3>2, MovingIsSafe
  <2>6. ASSUME ~o.ok, NEW again \in Settlings(o.fd, o.content), Leaves(again), result' = 0
        PROVE  Safe
    <3>1. again \in Pourings(o.fd, o.content, o.fd.pos, <<>>) /\ OpenAt.writer /\ OpenAt.held # <<>>
      BY <2>2, <2>6 DEF Settlings
    <3>2. /\ handle \in DOMAIN fds /\ OpenAt = fds[handle] /\ Place \in Nat /\ Place <= Len(Content)
          /\ Place = Lesser(OpenAt.pos, Len(Content))
      BY <1>2, <3>1, OpenAtIsOpen
    <3>3. OpenAt \in FileType /\ OpenAt.pos \in Nat /\ Content \in Seq(Octets) /\ Len(Content) \in Nat /\ <<>> \in Seq(Octets)
      BY <1>2, <3>2, OpenHasContent, OpenAtIsOpen
    <3>4. Place <= o.fd.pos
      BY <2>2, <3>2, <3>3 DEF Lesser
    <3>5. Fits(OpenAt, Content, Place, again)
      BY <2>2, <3>1, <3>2, <3>3, <3>4, PouringsFollow
    <3>6. OpenFiles(again.fd) /\ ~(result' < 0)
      BY <2>6, <3>1, <3>5 DEF Fits, OpenFiles
    <3>7. QED
      BY <1>2, <2>6, <3>1, <3>5, <3>6, LeavingIsSafe DEF Leaves, Fits
  <2>7. \/ o.ok /\ Leaves([o EXCEPT !.fd.pos = @ + got]) /\ result' = got
        \/ o.ok /\ (\E n \in 0..got : Leaves([o EXCEPT !.fd.pos = @ + n])) /\ result' = ErrIo
        \/ ~o.ok /\ (\E again \in Settlings(o.fd, o.content) : Leaves(again)) /\ result' = 0
    BY <2>1 DEF got
  <2>8. ~(got < 0) /\ \A n \in 0..got : n \in Nat
    BY <2>4
  <2>9. CASE o.ok /\ Leaves([o EXCEPT !.fd.pos = @ + got]) /\ result' = got
    <3>1. ~(result' < 0)
      BY <2>8, <2>9
    <3> QED
      BY <2>4, <2>5, <2>9, <3>1
  <2>10. CASE o.ok /\ (\E n \in 0..got : Leaves([o EXCEPT !.fd.pos = @ + n])) /\ result' = ErrIo
    BY <2>5, <2>8, <2>10
  <2> QED
    BY <2>6, <2>7, <2>9, <2>10
<1> QED
  BY <1>1, <1>2

LEMMA SeekIsSafe ==
  ASSUME FsInv, NEW whence \in Nat, NEW offset \in Int, SeekFile(whence, offset) PROVE Safe
<1>1. CASE OpenAt = Closed \/ whence > 2
  BY <1>1, AnswersOnly DEF SeekFile, Answers
<1>2. CASE OpenAt # Closed /\ ~(whence > 2)
  <2> DEFINE base(o) == CASE whence = 0 -> 0 [] whence = 1 -> OpenAt.pos + Len(OpenAt.held) [] OTHER -> IF o.ok THEN Len(o.content) ELSE -1
             target(o) == base(o) + offset
             x(o) == IF o.ok /\ target(o) >= 0 THEN target(o) ELSE o.fd.pos
  <2>1. PICK o \in Settlings(OpenAt, Content) :
          /\ Leaves([o EXCEPT !.fd.pos = IF o.ok /\ target(o) >= 0 THEN target(o) ELSE @])
          /\ result' = IF target(o) >= 0 THEN target(o) ELSE ErrInvalid
    BY <1>2 DEF SeekFile
  <2>2. /\ Fits(OpenAt, Content, Place, o) /\ OpenFiles(o.fd) /\ o.fd.pos \in Nat
        /\ OpenAt.held = <<>> => o.ok /\ o.content = Content /\ o.fd = OpenAt
    BY <1>2, OpenAtSettles
  <2>3. OpenAt.pos \in Nat /\ OpenAt.held \in Seq(Octets) /\ Len(o.content) \in Nat
    BY <1>2, <2>2, OpenAtIsOpen, OpenHasContent DEF Fits
  <2>4. target(o) \in Int
    BY <2>3
  <2>5. Leaves([o EXCEPT !.fd.pos = x(o)])
    BY <2>1
  <2> HIDE DEF target
  <2>6. x(o) \in Nat /\ (result' < 0 => OpenAt.held # <<>> \/ x(o) = OpenAt.pos)
    BY <2>1, <2>2, <2>4
  <2> HIDE DEF x
  <2>7. /\ inodes' = [inodes EXCEPT ![OpenAt.inode] = o.content] /\ fds' = [fds EXCEPT ![handle] = [o.fd EXCEPT !.pos = x(o)]]
        /\ UNCHANGED tree
    BY <2>2, <2>5, LeavesWhere
  <2>8. QED
    BY <1>2, <2>6, <2>7, MovingIsSafe
<1> QED
  BY <1>1, <1>2

LEMMA SizeIsSafe ==
  ASSUME FsInv, FileSize PROVE Safe
<1>1. CASE OpenAt = Closed
  BY <1>1, AnswersOnly DEF FileSize, Answers
<1>2. CASE OpenAt # Closed
  <2>1. PICK o \in Settlings(OpenAt, Content) : Leaves(o) /\ result' = IF o.ok THEN Len(o.content) ELSE -1
    BY <1>2 DEF FileSize
  <2>2. /\ Fits(OpenAt, Content, Place, o) /\ OpenFiles(o.fd) /\ o.fd.pos \in Nat
        /\ OpenAt.held = <<>> => o.ok
    BY <1>2, OpenAtSettles
  <2>3. o.fd = [o.fd EXCEPT !.pos = o.fd.pos]
    BY <2>2 DEF OpenFiles, FileType
  <2>4. result' < 0 => OpenAt.held # <<>>
    BY <2>1, <2>2 DEF Fits
  <2>5. QED
    BY <1>2, <2>1, <2>2, <2>3, <2>4, MovingIsSafe DEF Leaves
<1> QED
  BY <1>1, <1>2

LEMMA WriteIsSafe ==
  ASSUME FsInv, NEW some \in Seq(Octets), WriteFile(some) PROVE Safe
<1>1. CASE OpenAt = Closed \/ some = <<>>
  BY <1>1, AnswersOnly DEF WriteFile, Answers
<1>2. CASE OpenAt # Closed /\ some # <<>>
  <2>1. /\ handle \in DOMAIN fds /\ OpenAt = fds[handle] /\ Place \in Nat /\ Place <= Len(Content)
        /\ (OpenAt.append /\ OpenAt.held = <<>> => Place = Len(Content))
        /\ (~(OpenAt.append /\ OpenAt.held = <<>>) => Place = Lesser(OpenAt.pos, Len(Content)))
    BY <1>2, OpenAtIsOpen
  <2>2. /\ OpenFiles(OpenAt) /\ OpenAt \in FileType /\ OpenAt.pos \in Nat /\ OpenAt.inode \in DOMAIN inodes
        /\ Content \in Seq(Octets) /\ Len(Content) \in Nat /\ Len(some) \in Nat
    BY <1>2, <2>1, OpenHasContent, OpenAtIsOpen
  <2>3. CASE ~OpenAt.writer
    <3> DEFINE f == [OpenAt EXCEPT !.pos = IF OpenAt.append THEN Len(Content) ELSE @]
    <3>1. fds' = [fds EXCEPT ![handle] = f] /\ result' = ErrIo /\ UNCHANGED <<tree, inodes>>
      BY <1>2, <2>1, <2>3 DEF WriteFile
    <3>2. OpenFiles(f) /\ f.inode = OpenAt.inode /\ f.writer = OpenAt.writer /\ f.append = OpenAt.append
      BY <2>2 DEF OpenFiles, FileType
    <3>3. inodes' = [inodes EXCEPT ![OpenAt.inode] = Content]
      BY <2>2, <3>1 DEF FsInv, Filed, Content
    <3> HIDE DEF f
    <3>4. UNCHANGED tree /\ Len(Content) >= Len(Content) /\ \A n \in 1..Place : Content[n] = Content[n]
      BY <2>2, <3>1
    <3>5. QED
      BY <1>2, <2>2, <3>1, <3>2, <3>3, <3>4, LeavingIsSafe
  <2>4. CASE OpenAt.writer
    <3>1. PICK o \in Writings(OpenAt, Content, some) : Leaves(o) /\ result' = IF o.ok THEN Len(some) ELSE ErrIo
      BY <1>2, <2>4 DEF WriteFile
    <3>2. Fits(OpenAt, Content, Place, o)
      <4>1. CASE ~OpenAt.append
        BY <2>1, <2>2, <3>1, <4>1, PouringFits DEF Writings
      <4>2. CASE OpenAt.append
        <5>1. PICK s \in Settlings(OpenAt, Content) : o \in IF s.ok THEN Pourings(s.fd, s.content, Len(s.content), some) ELSE {s}
          BY <3>1, <4>2 DEF Writings
        <5>2. Fits(OpenAt, Content, Place, s)
          BY <1>2, OpenAtSettles
        <5>3. Len(s.content) \in Nat /\ Place <= Len(s.content)
          BY <2>1, <2>2, <5>2 DEF Fits
        <5>4. CASE s.ok
          BY <2>1, <2>2, <5>1, <5>2, <5>3, <5>4, PouringsFollow
        <5>5. CASE ~s.ok
          BY <5>1, <5>2, <5>5
        <5> QED
          BY <5>4, <5>5
      <4> QED
        BY <2>2, <4>1, <4>2
    <3>3. OpenFiles(o.fd) /\ (result' < 0 => result' = ErrIo)
      BY <2>2, <2>4, <3>1, <3>2 DEF Fits, OpenFiles
    <3>4. QED
      BY <1>2, <2>4, <3>1, <3>2, <3>3, LeavingIsSafe DEF Leaves, Fits
  <2> QED
    BY <2>2, <2>3, <2>4
<1> QED
  BY <1>1, <1>2

(* The least of some numbers.                                               *)
LEMMA Least ==
    ASSUME NEW S \in SUBSET Nat, S # {}
    PROVE  \E n \in S : \A m \in S : n <= m
<1> DEFINE R == StrictSubsetOrdering(Nat)
           F == FiniteSubsetsOf(Nat)
           I == {1 .. n : n \in S}
<1>1. IsWellFoundedOn(R, F)
    BY FS_StrictSubsetOrderingWellFounded
<1>2. I \subseteq F /\ I # {}
    <2>1. \A n \in Nat : 1 .. n \in FiniteSubsetsOf(Nat)
        BY FS_Interval DEF FiniteSubsetsOf
    <2> QED
        BY <2>1
<1>3. \E x \in I : \A y \in I : <<y, x>> \notin R
    <2> HIDE DEF R, F, I
    <2> QED
        BY <1>1, <1>2, WFMin
<1>4. PICK n \in S : \A m \in S : <<1 .. m, 1 .. n>> \notin R
    BY <1>3
<1>5. ASSUME NEW m \in S, m < n PROVE FALSE
    <2>1. n \in 1 .. n /\ n \notin 1 .. m
        BY <1>5
    <2>2. 1 .. m \subseteq 1 .. n /\ 1 .. m # 1 .. n /\ 1 .. m \subseteq Nat /\ 1 .. n \subseteq Nat
        BY <1>5, <2>1
    <2>3. <<1 .. m, 1 .. n>> \in R
        BY <2>2, Zenon DEF StrictSubsetOrdering
    <2> QED
        BY <1>4, <2>3
<1> QED
    BY <1>4, <1>5

(* A new file is a new one.                                                  *)
LEMMA FreshIsNew ==
  ASSUME FsInv PROVE FreshInode \in Nat /\ FreshInode \notin DOMAIN inodes
<1> DEFINE D == DOMAIN inodes
           n == Cardinality(D)
<1>1. IsFiniteSet(D) /\ n \in Nat
  BY FS_CardinalityType DEF FsInv, Filed
<1>2. Cardinality(1..(n + 1)) = n + 1
  BY <1>1, FS_Interval
<1>3. ~(1..(n + 1) \subseteq D)
  <2>1. 1..(n + 1) \subseteq D => Cardinality(1..(n + 1)) <= n
    BY <1>1, FS_Subset
  <2> HIDE DEF D, n
  <2>2. QED
    BY <1>1, <1>2, <2>1
<1>4. \E i \in 1..(n + 1) : i \notin D
  BY <1>3
<1>5. FreshInode \in 1..(n + 1) /\ FreshInode \notin D
  BY <1>4 DEF FreshInode
<1> QED
  BY <1>1, <1>5

(* A file is emptied or made, and opened or, when the host does not let it   *)
(* be, refused.                                                              *)
LEMMA OpenIsSafe ==
  ASSUME FsInv, NEW p \in Named, NEW read \in BOOLEAN, NEW write \in BOOLEAN, NEW create \in BOOLEAN, NEW truncate \in BOOLEAN,
         NEW append \in BOOLEAN, NEW exclusive \in BOOLEAN,
         OpenFile(p, read, write, create, truncate, append, exclusive)
  PROVE  Safe
<1> DEFINE slot == CHOOSE i \in FreeSlots : \A j \in FreeSlots : i <= j
           inode == IF Exists(p) THEN tree[p].inode ELSE FreshInode
           empties == ~Exists(p) \/ (write /\ truncate)
           opened == [inode |-> inode, pos |-> 0, writer |-> write, append |-> append, held |-> <<>>]
           makes == /\ FreeSlots # {} /\ ~IsDir(p) /\ (Exists(p) /\ empties => tree[p].writes)
                    /\ inodes' = IF empties THEN [i \in DOMAIN inodes \cup {inode} |-> IF i = inode THEN <<>> ELSE inodes[i]]
                                 ELSE inodes
                    /\ tree' = IF Exists(p) THEN tree ELSE Having(p, PlainFile(inode))
                    /\ \/ fds' = [fds EXCEPT ![slot] = opened] /\ result' = slot
                       \/ UNCHANGED fds /\ result' = ErrAccess
<1>1. (\E r : Answers(r)) \/ makes
  BY Zenon DEF OpenFile
<1>2. CASE \E r : Answers(r)
  BY <1>2, AnswersOnly DEF Answers
<1>3. CASE makes
  <2>1. slot \in FreeSlots /\ slot \in DOMAIN fds /\ slot \in Nat /\ fds[slot] = Closed
    <3>1. FreeSlots \subseteq Nat
      BY HostFsAssumption DEF FreeSlots
    <3>2. \E i \in FreeSlots : \A j \in FreeSlots : i <= j
      BY <1>3, <3>1, Least
    <3>3. slot \in FreeSlots
      BY <3>2
    <3> QED
      BY <3>3, HostFsAssumption DEF FreeSlots, FsInv, Slots
  <2> HIDE DEF slot
  <2>2. /\ inode \in DOMAIN inodes \/ empties
        /\ Exists(p) => inode = tree[p].inode /\ inode \in DOMAIN inodes
        /\ ~Exists(p) => inode \notin DOMAIN inodes
        /\ inode \in Nat
    <3>1. CASE Exists(p)
      BY <1>3, <3>1 DEF FsInv, Listed, Filed, IsDir, Exists
    <3>2. CASE ~Exists(p)
      BY <3>2, FreshIsNew
    <3> QED
      BY <3>1, <3>2
  <2>3. /\ DOMAIN inodes' = DOMAIN inodes \cup {inode}
        /\ \A i \in DOMAIN inodes : inodes'[i] = inodes[i] \/ (i = inode /\ empties /\ inodes'[i] = <<>>)
        /\ inodes'[inode] \in Seq(Octets)
        /\ ~empties => inodes' = inodes
    <3>1. CASE empties
      <4> HIDE DEF empties, inode
      <4> QED
        BY <1>3, <3>1 DEF empties, inode
    <3>2. CASE ~empties
      BY <1>3, <2>2, <3>2 DEF FsInv, Filed
    <3> QED
      BY <3>1, <3>2
  <2>4. Filed'
    <3>1. inodes' = [i \in DOMAIN inodes' |-> inodes'[i]]
      <4> HIDE DEF inode, empties
      <4> QED
        BY <1>3 DEF FsInv, Filed
    <3>2. \A i \in DOMAIN inodes' : inodes'[i] \in Seq(Octets)
      <4> HIDE DEF inode, empties, makes
      <4> QED
        BY <2>3 DEF FsInv, Filed
    <3>3. DOMAIN inodes' \subseteq Nat /\ IsFiniteSet(DOMAIN inodes')
      <4> HIDE DEF inode, empties, makes
      <4> QED
        BY <2>2, <2>3, FS_AddElement DEF FsInv, Filed
    <3> QED
      BY <3>1, <3>2, <3>3 DEF Filed
  <2>5. /\ DOMAIN fds' = DOMAIN fds
        /\ \A h \in DOMAIN fds : fds'[h] = fds[h] \/ (h = slot /\ fds'[h] = opened)
        /\ fds' = [h \in 0..(MaxOpenFiles - 1) |-> fds'[h]]
    <3>1. fds' = [fds EXCEPT ![slot] = opened] \/ fds' = fds
      <4> HIDE DEF opened
      <4> QED
        BY <1>3
    <3> HIDE DEF opened
    <3> QED
      BY <2>1, <3>1 DEF FsInv, Slots
  <2>6. Slots' /\ Held'
    <3>1. OpenFiles(opened) /\ opened.inode = inode
      <4>1. <<>> \in Seq(Octets)
        OBVIOUS
      <4> HIDE DEF inode
      <4> QED
        BY <2>2, <4>1 DEF OpenFiles, FileType
    <3> HIDE DEF opened, inode, empties, makes
    <3>2. Slots'
      BY <2>5, <3>1 DEF FsInv, Slots
    <3>3. Held'
      BY <2>3, <2>5, <3>1 DEF FsInv, Held
    <3> QED
      BY <3>2, <3>3
  <2>7. Listed'
    <3>1. CASE Exists(p)
      BY <1>3, <2>3, <3>1 DEF FsInv, Listed
    <3>2. CASE ~Exists(p)
      <4>1. tree' = Having(p, PlainFile(inode))
        BY <1>3, <3>2
      <4> HIDE DEF inode, empties, makes
      <4> QED
        BY <2>3, <4>1 DEF FsInv, Listed, Having, PlainFile
    <3> QED
      BY <3>1, <3>2
  <2>8. Contained
    <3>1. SUFFICES ASSUME result' < 0 PROVE Contained
      BY DEF Contained
    <3>2. UNCHANGED fds /\ result' = ErrAccess
      BY <1>3, <2>1, <3>1
    <3>3. ASSUME tree' # tree
          PROVE  \E q \in Named \ DOMAIN tree, i \in DOMAIN inodes' \ DOMAIN inodes :
                   tree' = Having(q, PlainFile(i)) /\ inodes'[i] = <<>>
      <4>1. ~Exists(p) /\ tree' = Having(p, PlainFile(inode)) /\ empties
        BY <1>3, <3>3
      <4>2. inodes'[inode] = <<>>
        <5>1. inodes' = [i \in DOMAIN inodes \cup {inode} |-> IF i = inode THEN <<>> ELSE inodes[i]]
          BY <1>3, <4>1
        <5> HIDE DEF inode
        <5> QED
          BY <5>1
      <4> HIDE DEF inode
      <4>3. p \in Named \ DOMAIN tree /\ inode \in DOMAIN inodes' \ DOMAIN inodes
        BY <2>2, <2>3, <4>1 DEF Exists
      <4> QED
        BY <4>1, <4>2, <4>3
    <3>4. ASSUME NEW i \in DOMAIN inodes, inodes'[i] # inodes[i]
          PROVE  inodes'[i] = <<>> /\ \E q \in DOMAIN tree : tree[q].inode = i /\ tree[q].writes
      <4>1. i = inode /\ empties /\ inodes'[i] = <<>>
        BY <2>3, <3>4
      <4>2. Exists(p) /\ tree[p].inode = i
        BY <2>2, <3>4, <4>1
      <4>3. tree[p].writes
        BY <1>3, <4>1, <4>2
      <4> QED
        BY <4>1, <4>2, <4>3 DEF Exists
    <3> QED
      BY <3>2, <3>3, <3>4 DEF Contained
  <2>9. NeverReplaces
    <3>1. fds[slot].append = FALSE
      BY <2>1 DEF Closed
    <3> QED
      BY <2>5, <3>1 DEF NeverReplaces
  <2> QED
    BY <2>4, <2>6, <2>7, <2>8, <2>9 DEF FsInv, Safe
<1> QED
  BY <1>1, <1>2, <1>3

(* A name comes, goes or moves: what it names was named before, or is a      *)
(* directory.                                                                *)
LEMMA NamesOnly ==
  ASSUME FsInv, UNCHANGED <<inodes, fds>>, result' = 0,
         \A p \in DOMAIN tree' : tree'[p] = Directory \/ \E q \in DOMAIN tree : tree'[p] = tree[q]
  PROVE  Safe
<1>1. Listed'
  <2>1. SUFFICES ASSUME NEW p \in DOMAIN tree'
                 PROVE  /\ tree'[p].dir \in BOOLEAN /\ tree'[p].reads \in BOOLEAN /\ tree'[p].writes \in BOOLEAN
                        /\ ~tree'[p].dir => tree'[p].inode \in DOMAIN inodes
    BY DEF Listed
  <2>2. CASE tree'[p] = Directory
    BY <2>2 DEF Directory
  <2>3. CASE \E q \in DOMAIN tree : tree'[p] = tree[q]
    BY <2>3 DEF FsInv, Listed
  <2> QED
    BY <2>2, <2>3
<1>2. Contained /\ NeverReplaces
  BY DEF Contained, NeverReplaces
<1> QED
  BY <1>1, <1>2 DEF FsInv, Filed, Slots, Held, OpenFiles, Safe

LEMMA RemoveIsSafe ==
  ASSUME FsInv, NEW p, RemoveName(p) PROVE Safe
<1>1. (\E r : Answers(r)) \/ (tree' = Without({p}) /\ result' = 0 /\ UNCHANGED <<inodes, fds>>)
  BY DEF RemoveName
<1>2. CASE \E r : Answers(r)
  BY <1>2, AnswersOnly DEF Answers
<1>3. CASE tree' = Without({p}) /\ result' = 0 /\ UNCHANGED <<inodes, fds>>
  <2>1. \A q \in DOMAIN tree' : q \in DOMAIN tree /\ tree'[q] = tree[q]
    BY <1>3 DEF Without
  <2> QED
    BY <1>3, <2>1, NamesOnly
<1> QED
  BY <1>1, <1>2, <1>3

LEMMA MakeIsSafe ==
  ASSUME FsInv, NEW p, MakeDirectory(p) PROVE Safe
<1>1. (\E r : Answers(r)) \/ (tree' = Having(p, Directory) /\ result' = 0 /\ UNCHANGED <<inodes, fds>>)
  BY DEF MakeDirectory
<1>2. CASE \E r : Answers(r)
  BY <1>2, AnswersOnly DEF Answers
<1>3. CASE tree' = Having(p, Directory) /\ result' = 0 /\ UNCHANGED <<inodes, fds>>
  <2>1. \A q \in DOMAIN tree' : tree'[q] = Directory \/ (q \in DOMAIN tree /\ tree'[q] = tree[q])
    BY <1>3 DEF Having
  <2> QED
    BY <1>3, <2>1, NamesOnly
<1> QED
  BY <1>1, <1>2, <1>3

LEMMA RenameIsSafe ==
  ASSUME FsInv, NEW p, NEW q, RenameName(p, q) PROVE Safe
<1> DEFINE moved == [r \in AtOrBelow(p) |-> q \o SubSeq(r, Len(p) + 1, Len(r))]
           kept == DOMAIN tree \ (AtOrBelow(p) \cup {q})
           moves == /\ tree' = [r \in kept \cup {moved[o] : o \in AtOrBelow(p)} |->
                                  IF r \in kept THEN tree[r] ELSE tree[CHOOSE o \in AtOrBelow(p) : moved[o] = r]]
                    /\ result' = 0 /\ UNCHANGED <<inodes, fds>>
<1>1. (\E r : Answers(r)) \/ moves
  BY Zenon DEF RenameName
<1>2. CASE \E r : Answers(r)
  BY <1>2, AnswersOnly DEF Answers
<1>3. CASE moves
  <2>1. AtOrBelow(p) \subseteq DOMAIN tree /\ kept \subseteq DOMAIN tree
    BY DEF AtOrBelow
  <2> HIDE DEF kept, moved
  <2>2. ASSUME NEW r \in DOMAIN tree' PROVE \E o \in DOMAIN tree : tree'[r] = tree[o]
    <3>1. CASE r \in kept
      BY <1>3, <2>1, <3>1
    <3>2. CASE r \notin kept
      <4> DEFINE o == CHOOSE o \in AtOrBelow(p) : moved[o] = r
      <4>1. \E o1 \in AtOrBelow(p) : moved[o1] = r
        BY <1>3, <3>2
      <4>2. o \in AtOrBelow(p)
        BY <4>1
      <4>3. tree'[r] = tree[o]
        BY <1>3, <3>2
      <4> QED
        BY <2>1, <4>2, <4>3
    <3> QED
      BY <3>1, <3>2
  <2> QED
    BY <1>3, <2>2, NamesOnly
<1> QED
  BY <1>1, <1>2, <1>3

LEMMA CommandIsSafe ==
  ASSUME FsInv, FileCommand \/ NameCommand PROVE Safe
<1>1. CASE FileCommand
  <2>1. CASE Commanded(CloseFile) \/ Commanded(FileSize)
    BY <2>1, CloseIsSafe, SizeIsSafe DEF Commanded
  <2>2. CASE \E room \in 0..2 : Commanded(ReadFile(room))
    BY <2>2, ReadIsSafe DEF Commanded
  <2>3. CASE \E some \in {<<>>} \cup {<<b>> : b \in Bytes} \cup {<<b, b>> : b \in Bytes} : Commanded(WriteFile(some))
    <3>1. \A some \in {<<>>} \cup {<<b>> : b \in Bytes} \cup {<<b, b>> : b \in Bytes} : some \in Seq(Octets)
      <4>1. \A b \in Octets : <<b>> \in Seq(Octets) /\ <<b, b>> \in Seq(Octets)
        OBVIOUS
      <4>2. <<>> \in Seq(Octets)
        OBVIOUS
      <4> QED
        BY <4>1, <4>2 DEF Octets
    <3> QED
      BY <2>3, <3>1, WriteIsSafe DEF Commanded
  <2>4. CASE \E whence \in 0..3, offset \in -1..1 : Commanded(SeekFile(whence, offset))
    BY <2>4, SeekIsSafe DEF Commanded
  <2> QED
    BY <1>1, <2>1, <2>2, <2>3, <2>4 DEF FileCommand
<1>2. CASE NameCommand
  <2>1. CASE Commanded(Answers(ErrIo)) \/ \E what \in Wrong : Commanded(Answers(ErrorOf(what)))
    BY <2>1, AnswersOnly DEF Commanded, Answers
  <2>2. ASSUME NEW p \in Named, NEW write \in BOOLEAN, NEW truncate \in BOOLEAN, NEW append \in BOOLEAN, NEW create \in BOOLEAN,
               NEW exclusive \in BOOLEAN, NEW read \in BOOLEAN, Commanded(OpenFile(p, read, write, create, truncate, append, exclusive))
        PROVE  Safe
    BY <2>2, OpenIsSafe DEF Commanded
  <2>3. ASSUME NEW p \in Named, Commanded(RemoveName(p)) \/ Commanded(StatName(p)) \/ Commanded(MakeDirectory(p)) PROVE Safe
    BY <2>3, RemoveIsSafe, MakeIsSafe, AnswersOnly DEF Commanded, StatName, Answers
  <2>4. ASSUME NEW p \in Named, NEW q \in Named, Commanded(RenameName(p, q)) PROVE Safe
    BY <2>4, RenameIsSafe DEF Commanded
  <2>5. ASSUME NEW p \in Named, NEW index \in 0..1, NEW room \in 0..1, Commanded(ListNames(p, index, room)) PROVE Safe
    BY <2>5, AnswersOnly DEF Commanded, ListNames, Answers
  <2> QED
    BY <1>2, <2>1, <2>2, <2>3, <2>4, <2>5 DEF NameCommand
<1> QED
  BY <1>1, <1>2

LEMMA HostFsStarts == HostFsInit => FsInv
<1> SUFFICES ASSUME HostFsInit PROVE FsInv
  OBVIOUS
<1>1. PICK reads \in BOOLEAN, writes \in BOOLEAN, n \in Names :
        tree = [p \in {RootPath, <<n>>} |-> IF p = RootPath THEN Directory ELSE [PlainFile(1) EXCEPT !.reads = reads \/ ~writes, !.writes = writes]]
  BY DEF HostFsInit
<1>2. inodes = [i \in {1} |-> <<1>>] /\ fds = [i \in 0..(MaxOpenFiles - 1) |-> Closed]
  BY DEF HostFsInit
<1>3. Listed
  <2> DEFINE entry == [PlainFile(1) EXCEPT !.reads = reads \/ ~writes, !.writes = writes]
  <2>1. entry.dir = FALSE /\ entry.inode = 1 /\ entry.reads \in BOOLEAN /\ entry.writes \in BOOLEAN
    BY DEF PlainFile
  <2>2. \A p \in DOMAIN tree : tree[p] = Directory \/ tree[p] = entry
    BY <1>1
  <2> HIDE DEF entry
  <2>3. Directory.dir = TRUE /\ Directory.reads \in BOOLEAN /\ Directory.writes \in BOOLEAN
    BY DEF Directory
  <2>4. DOMAIN inodes = {1}
    BY <1>2
  <2> QED
    BY <2>1, <2>2, <2>3, <2>4 DEF Listed
<1>4. Filed
  <2>1. <<1>> \in Seq(Octets)
    BY DEF Octets
  <2>2. IsFiniteSet({1})
    BY FS_Singleton
  <2> QED
    BY <1>2, <2>1, <2>2 DEF Filed
<1>5. Slots /\ Held
  BY <1>2 DEF Slots, Held, OpenFiles, FileType, Closed
<1> QED
  BY <1>3, <1>4, <1>5 DEF FsInv

(* For any number of names and of files open at once, files of any length,   *)
(* and a host that fails or takes a part at any point: a command that fails  *)
(* (HostFsDevice::command() with a result below 0) leaves the directory, the *)
(* other files and the other handles as they were, but for the file an open  *)
(* made or emptied before it was refused; the file it writes is kept up to   *)
(* where it was to be written; and what a handle opened to append writes     *)
(* comes after all there was, whoever else wrote, truncated, renamed or      *)
(* removed the file since, unless bytes of a failed write are still held.    *)
THEOREM HostFilesStaySafe == HostFsSpec => HostFilesAreSafe
<1> DEFINE Steady == closing \in 0..MaxOpenFiles
<1>1. HostFsInit => FsInv /\ Steady
  <2>1. MaxOpenFiles \in 0..MaxOpenFiles
    BY HostFsAssumption
  <2> QED
    BY <2>1, HostFsStarts DEF HostFsInit
<1>2. FsInv /\ Steady /\ [HostFsNext]_hostFsVars => FsInv' /\ Steady' /\ [Contained]_hostFsVars /\ [NeverReplaces]_hostFsVars
  <2> SUFFICES ASSUME FsInv, Steady, [HostFsNext]_hostFsVars
               PROVE  Safe /\ Steady'
    BY DEF Safe
  <2>1. CASE FileCommand \/ NameCommand
    <3>1. UNCHANGED closing
      BY <2>1 DEF FileCommand, NameCommand, Commanded
    <3> QED
      BY <2>1, <3>1, CommandIsSafe
  <2>2. CASE HandleWritten \/ FsReset \/ UNCHANGED hostFsVars
    <3>1. UNCHANGED <<tree, inodes, fds>> /\ (UNCHANGED closing \/ closing' = 0)
      BY <2>2 DEF HandleWritten, FsReset, hostFsVars
    <3> QED
      BY <3>1, AnswersOnly, HostFsAssumption
  <2>3. CASE CloseNext
    <3>1. closing \in 0..(MaxOpenFiles - 1) /\ closing' = closing + 1 /\ ClosesSlot(closing) /\ UNCHANGED commands
      BY <2>3, HostFsAssumption DEF CloseNext, Runs
    <3>2. closing \in DOMAIN fds
      BY <3>1 DEF FsInv, Slots
    <3> QED
      BY <3>1, <3>2, ClosingIsSafe, HostFsAssumption DEF Safe, Contained
  <2> QED
    BY <2>1, <2>2, <2>3 DEF HostFsNext
<1> QED
  BY <1>1, <1>2, PTL DEF HostFsSpec, HostFilesAreSafe, FailuresAreContained, AppendsNeverReplace

-----------------------------------------------------------------------------
(* The bitmap plane                                                          *)

(* The strengthening: the pictures in turn are three different ones, as long *)
(* as no flip was dropped; only with three is one queued.                    *)
Pictures(b) ==
  /\ b = [base |-> b.base, back |-> b.back, spare |-> b.spare, waiting |-> b.waiting, queued |-> b.queued,
          shown |-> b.shown, buffers |-> b.buffers, dropped |-> b.dropped]
  /\ b.queued \in BOOLEAN /\ b.dropped \in BOOLEAN /\ b.buffers \in 1..3
Distinct(b) ==
  /\ b.base # b.back
  /\ IF b.queued = TRUE THEN b.waiting \notin {b.base, b.back} ELSE b.spare \notin {b.base, b.back}
InTurns(b) ==
  /\ Pictures(b) /\ b.shown = b.base /\ (b.queued = TRUE => b.buffers = 3)
  /\ b.dropped = FALSE => Distinct(b)

LEMMA FlipKeepsTurns ==
  ASSUME NEW b, InTurns(b) PROVE InTurns(ApplyPending(b))
<1>1. CASE b.buffers = 2
  <2>1. ApplyPending(b) = [b EXCEPT !.base = b.back, !.back = b.base, !.shown = b.back]
    BY <1>1 DEF ApplyPending, InTurns, Pictures
  <2> QED
    BY <1>1, <2>1 DEF InTurns, Pictures, Distinct
<1>2. CASE b.buffers = 3 /\ b.queued = TRUE
  <2>1. ApplyPending(b) = [b EXCEPT !.spare = b.base, !.base = b.waiting, !.queued = FALSE, !.shown = b.waiting]
    BY <1>2 DEF ApplyPending, InTurns, Pictures
  <2> QED
    BY <1>2, <2>1 DEF InTurns, Pictures, Distinct
<1>3. CASE b.buffers # 2 /\ ~(b.buffers = 3 /\ b.queued = TRUE)
  <2>1. ApplyPending(b) = b
    BY <1>3 DEF ApplyPending, InTurns, Pictures
  <2> QED
    BY <2>1
<1> QED
  BY <1>1, <1>2, <1>3

LEMMA PresentKeepsTurns ==
  ASSUME NEW b, InTurns(b) PROVE InTurns(Presented(b))
BY DEF InTurns, Pictures, Distinct, Presented

LEMMA BitmapKeepsTurns ==
  ASSUME NEW b, InTurns(b), NEW reg, NEW v, reg = "buffers" => v \in 1..3
  PROVE  InTurns(BitmapWritten(b, reg, v))
<1>1. CASE reg = "present"
  BY <1>1, PresentKeepsTurns DEF BitmapWritten
<1>2. CASE reg = "buffers"
  BY <1>2 DEF BitmapWritten, InTurns, Pictures, Distinct
<1>3. CASE reg = "reset"
  <2>1. BitmapWritten(b, reg, v) = FirstBitmap
    BY <1>3 DEF BitmapWritten
  <2> QED
    BY <2>1 DEF InTurns, Pictures, Distinct, FirstBitmap
<1>4. CASE reg \notin {"present", "buffers", "reset"}
  BY <1>4 DEF BitmapWritten
<1> QED
  BY <1>1, <1>2, <1>3, <1>4

LEMMA ProgramKeepsTurns ==
  ASSUME InTurns(bitmap), Program PROVE InTurns(bitmap')
<1>1. PICK reg, v : bitmap' = BitmapWritten(bitmap, reg, v) /\ (reg = "buffers" => v \in 1..3)
  BY DEF Program, Instruction
<1> QED
  BY <1>1, BitmapKeepsTurns

(* Whatever the program writes to the GPU, at whatever moment of the scan:   *)
(* no picture is drawn into while it is shown or waits to be, unless a flip  *)
(* was dropped by a write to the number of buffers.                          *)
THEOREM PicturesAreShownWhole == ScanSpec => []NeverDrawnWhereShown
<1>1. ScanInit => InTurns(bitmap)
  BY DEF ScanInit, ScanStart, FirstBitmap, InTurns, Pictures, Distinct
<1>2. InTurns(bitmap) /\ [ScanNext]_scanVars => InTurns(bitmap)'
  <2> SUFFICES ASSUME InTurns(bitmap), [ScanNext]_scanVars PROVE InTurns(bitmap')
    OBVIOUS
  <2>1. CASE VblankEvent
    BY <2>1, FlipKeepsTurns DEF VblankEvent
  <2>2. CASE Program
    BY <2>2, ProgramKeepsTurns
  <2>3. CASE FrameEvent \/ LineEvent \/ NothingDue \/ UNCHANGED scanVars
    BY <2>3 DEF FrameEvent, LineEvent, NothingDue, scanVars
  <2> QED
    BY <2>1, <2>2, <2>3 DEF ScanNext
<1>3. InTurns(bitmap) => NeverDrawnWhereShown
  BY DEF InTurns, Pictures, Distinct, NeverDrawnWhereShown
<1> QED
  BY <1>1, <1>2, <1>3, PTL DEF ScanSpec
=============================================================================
