------------------------------- MODULE HostFs -------------------------------
(* The host file device: the program writes registers and a command, and the *)
(* command is carried out at once against a directory of the host.  Names    *)
(* are model values; a path is a directory and a name in it.                 *)
EXTENDS Integers, Sequences, SequencesExt, FiniteSets

CONSTANTS
  Names,         \* plain names
  Bytes,         \* what a byte may be
  MaxOpenFiles,
  MaxSize,       \* of a file: bounds the writes
  MaxCommands    \* commands the program may still give

ASSUME HostFsAssumption == MaxOpenFiles \in Nat \ {0} /\ MaxSize \in Nat

VARIABLES
  tree,     \* what is there: path -> [dir, inode, reads, writes]
  inodes,   \* contents of the files that exist or are open
  fds,      \* the open files: [inode, pos, writer, append, held] or Closed
  closing,  \* the slot a reset closes next; MaxOpenFiles when none is under way
  handle,   \* the handle register
  result,   \* the result register
  commands  \* left

hostFsVars == <<tree, inodes, fds, closing, handle, result, commands>>

Closed == [inode |-> 0, pos |-> 0, writer |-> FALSE, append |-> FALSE, held |-> <<>>]
RootPath == <<>>
PlainFile(i) == [dir |-> FALSE, inode |-> i, reads |-> TRUE, writes |-> TRUE]
Directory == [dir |-> TRUE, inode |-> 0, reads |-> TRUE, writes |-> TRUE]

ErrNoEntry == -2  ErrIo == -5  ErrBadHandle == -9  ErrAccess == -13  ErrExists == -17  ErrNotDirectory == -20
ErrIsDirectory == -21  ErrInvalid == -22  ErrTooManyOpen == -24  ErrNameTooLong == -36  ErrNotEmpty == -39

-----------------------------------------------------------------------------
(* Names.  The device takes a plain relative name of at most 255 bytes, read *)
(* from RAM; "" is the directory itself.                                     *)

\* What is at a name's address, and the error it makes: no name at all, one that never
\* ends, one with a step up or a drive in it, one that a link leads out of the directory.
Wrong == {"nowhere", "endless", "dots", "outside"}
Named == {RootPath} \cup {<<n>> : n \in Names} \cup {<<n, m>> : n \in Names, m \in Names}
ErrorOf(what) == CASE what = "endless" -> ErrNameTooLong [] what = "outside" -> ErrAccess [] OTHER -> ErrInvalid

Exists(p)   == p \in DOMAIN tree
IsDir(p)    == Exists(p) /\ tree[p].dir
Parent(p)   == SubSeq(p, 1, Len(p) - 1)
Children(p) == {q \in DOMAIN tree : Len(q) = Len(p) + 1 /\ Parent(q) = p}
Without(some) == [p \in DOMAIN tree \ some |-> tree[p]]
Having(p, entry) == [q \in DOMAIN tree \cup {p} |-> IF q = p THEN entry ELSE tree[q]]

\* One command: its result and, unless it says otherwise, nothing else.
Answers(r) == result' = r /\ UNCHANGED <<tree, inodes, fds>>

-----------------------------------------------------------------------------
(* Files.                                                                    *)

FreeSlots == {i \in 0..(MaxOpenFiles - 1) : fds[i] = Closed}
FreshInode == CHOOSE i \in 1..(Cardinality(DOMAIN inodes) + 1) : i \notin DOMAIN inodes
(* Mutant: the file is cut before it is known whether it can be opened. *)
OpenTruncatingFirst(p, read, write, create, truncate, append, exclusive) ==
  IF Exists(p) /\ ~IsDir(p) /\ write /\ truncate
  THEN /\ inodes' = [inodes EXCEPT ![tree[p].inode] = <<>>]
       /\ result' = (IF FreeSlots = {} THEN ErrTooManyOpen ELSE ErrExists) /\ UNCHANGED <<tree, fds>>
  ELSE Answers(ErrNoEntry)
OpenFile(p, read, write, create, truncate, append, exclusive) ==
  LET slot == CHOOSE i \in FreeSlots : \A j \in FreeSlots : i <= j
      inode == IF Exists(p) THEN tree[p].inode ELSE FreshInode
      empties == ~Exists(p) \/ (write /\ truncate)
      may == ~Exists(p) \/ (tree[p].reads /\ (write => tree[p].writes))
      opened == [inode |-> inode, pos |-> 0, writer |-> write, append |-> append, held |-> <<>>]
  IN  IF ~read /\ ~write THEN Answers(ErrInvalid)
      ELSE IF FreeSlots = {} THEN Answers(ErrTooManyOpen)
      ELSE IF IsDir(p) THEN Answers(ErrIsDirectory)
      ELSE IF Exists(p) /\ create /\ exclusive THEN Answers(ErrExists)
      ELSE IF ~Exists(p) /\ (~create \/ ~write \/ ~IsDir(Parent(p))) THEN Answers(ErrNoEntry)
      ELSE IF Exists(p) /\ empties /\ ~tree[p].writes THEN Answers(ErrAccess)
      ELSE \/ Answers(ErrAccess)   \* the host does not let it be emptied, or opened as it is
           \/ \E lets \in {may, FALSE} :
                /\ inodes' = IF empties THEN [i \in DOMAIN inodes \cup {inode} |-> IF i = inode THEN <<>> ELSE inodes[i]] ELSE inodes
                /\ tree' = IF Exists(p) THEN tree ELSE Having(p, PlainFile(inode))
                /\ IF lets THEN fds' = [fds EXCEPT ![slot] = opened] /\ result' = slot
                   ELSE UNCHANGED fds /\ result' = ErrAccess

OpenAt == IF handle \in DOMAIN fds THEN fds[handle] ELSE Closed
Content == inodes[OpenAt.inode]

\* A file grows with zeros up to where it is written.
Filled(content, pos, bytes) ==
  IF bytes = <<>> THEN content
  ELSE [i \in 1..(IF pos + Len(bytes) > Len(content) THEN pos + Len(bytes) ELSE Len(content)) |->
          IF i \in (pos + 1)..(pos + Len(bytes)) THEN bytes[i - pos] ELSE IF i <= Len(content) THEN content[i] ELSE 0]

\* The host's stream writes at a position, after what it still holds of a write that failed.
\* The host may take all of it or stop anywhere (a full disk): the stream then stands where
\* the host stopped, and holds what it held or, of a short write, those bytes as well,
\* the ones already written with them.
Poured(fd, content, at, some, holds, ok) ==
  [content |-> Filled(content, at, some), fd |-> [fd EXCEPT !.pos = at + Len(some), !.held = holds], ok |-> ok]
Pourings(fd, content, at, bytes) ==
  LET all == fd.held \o bytes
  IN  {Poured(fd, content, at, all, <<>>, TRUE)}
      \cup {Poured(fd, content, at, SubSeq(all, 1, k), fd.held, FALSE) : k \in 0..(Len(all) - 1)}
      \cup {Poured(fd, content, at, SubSeq(all, 1, k), all, FALSE) : k \in 0..(Len(all) - 1)}
\* Before it reads, seeks or closes it writes what it holds.
Settlings(fd, content) == Pourings(fd, content, fd.pos, <<>>)
Leaves(o) == inodes' = [inodes EXCEPT ![OpenAt.inode] = o.content] /\ fds' = [fds EXCEPT ![handle] = o.fd] /\ UNCHANGED tree

\* Nobody asks whether the stream of a file that is closed could still write.
ClosesSlot(h) ==
  IF fds[h] = Closed THEN UNCHANGED <<tree, inodes, fds>>
  ELSE \E o \in Settlings(fds[h], inodes[fds[h].inode]) :
         inodes' = [inodes EXCEPT ![fds[h].inode] = o.content] /\ fds' = [fds EXCEPT ![h] = Closed] /\ UNCHANGED tree
CloseFile == IF OpenAt = Closed THEN Answers(ErrBadHandle) ELSE ClosesSlot(handle) /\ result' = 0

\* Bytes are read to RAM and written from it, as many as RAM there has room for.  A stream
\* that cannot write what it holds reads nothing, and tries once more before it answers.
Lesser(a, b) == IF a < b THEN a ELSE b
ReadFile(room) ==
  IF OpenAt = Closed THEN Answers(ErrBadHandle)
  ELSE IF room = 0 THEN Answers(0)
  ELSE \E o \in Settlings(OpenAt, Content) :
         LET got == Lesser(room, IF o.fd.pos < Len(o.content) THEN Len(o.content) - o.fd.pos ELSE 0)
         IN  \/ o.ok /\ Leaves([o EXCEPT !.fd.pos = @ + got]) /\ result' = got
             \/ o.ok /\ (\E n \in 0..got : Leaves([o EXCEPT !.fd.pos = @ + n])) /\ result' = ErrIo   \* the host fails
             \/ ~o.ok /\ (\E again \in Settlings(o.fd, o.content) : Leaves(again)) /\ result' = 0

\* To append, the stream first goes to the end, and so settles.
Writings(fd, content, bytes) ==
  IF ~fd.append THEN Pourings(fd, content, fd.pos, bytes)
  ELSE UNION {IF s.ok THEN Pourings(s.fd, s.content, Len(s.content), bytes) ELSE {s} : s \in Settlings(fd, content)}
WriteFile(bytes) ==
  IF OpenAt = Closed THEN Answers(ErrBadHandle)
  ELSE IF bytes = <<>> THEN Answers(0)
  ELSE IF ~OpenAt.writer
  THEN fds' = [fds EXCEPT ![handle].pos = IF OpenAt.append THEN Len(Content) ELSE @] /\ result' = ErrIo /\ UNCHANGED <<tree, inodes>>
  ELSE \E o \in Writings(OpenAt, Content, bytes) : Leaves(o) /\ result' = IF o.ok THEN Len(bytes) ELSE ErrIo

\* A stream that cannot write what it holds has its end at -1, and does not move.
SeekFile(whence, offset) ==
  IF OpenAt = Closed THEN Answers(ErrBadHandle)
  ELSE IF whence > 2 THEN Answers(ErrInvalid)
  ELSE \E o \in Settlings(OpenAt, Content) :
         LET base == CASE whence = 0 -> 0 [] whence = 1 -> OpenAt.pos + Len(OpenAt.held) [] OTHER -> IF o.ok THEN Len(o.content) ELSE -1
             target == base + offset
         IN  /\ Leaves([o EXCEPT !.fd.pos = IF o.ok /\ target >= 0 THEN target ELSE @])
             /\ result' = IF target >= 0 THEN target ELSE ErrInvalid
FileSize ==
  IF OpenAt = Closed THEN Answers(ErrBadHandle)
  ELSE \E o \in Settlings(OpenAt, Content) : Leaves(o) /\ result' = IF o.ok THEN Len(o.content) ELSE -1

-----------------------------------------------------------------------------
(* Names of files and directories.                                           *)

\* A file that is open lives on without its name.
RemoveName(p) ==
  IF p = RootPath THEN Answers(ErrInvalid)
  ELSE IF ~Exists(p) THEN Answers(ErrNoEntry)
  ELSE IF IsDir(p) /\ Children(p) # {} THEN Answers(ErrNotEmpty)
  ELSE tree' = Without({p}) /\ result' = 0 /\ UNCHANGED <<inodes, fds>>

\* The host's rename: over a file or an empty directory of the same kind; a directory
\* takes what is in it along, and cannot move into itself.
AtOrBelow(p) == {q \in DOMAIN tree : Len(q) >= Len(p) /\ SubSeq(q, 1, Len(p)) = p}
Under(p, q) == Len(q) >= Len(p) /\ SubSeq(q, 1, Len(p)) = p
RenameName(p, q) ==
  IF p = RootPath \/ q = RootPath THEN Answers(ErrInvalid)
  ELSE IF ~Exists(p) THEN Answers(ErrNoEntry)
  ELSE IF p = q THEN Answers(0)
  ELSE IF ~IsDir(Parent(q)) THEN Answers(IF Exists(Parent(q)) THEN ErrNotDirectory ELSE ErrNoEntry)
  ELSE IF IsDir(p) /\ Under(p, q) THEN Answers(ErrIo)
  ELSE IF Under(q, p) THEN Answers(ErrNotEmpty)
  ELSE IF IsDir(q) /\ ~IsDir(p) THEN Answers(ErrIsDirectory)
  ELSE IF IsDir(p) /\ Exists(q) /\ ~IsDir(q) THEN Answers(ErrNotDirectory)
  ELSE IF IsDir(q) /\ Children(q) # {} THEN Answers(ErrNotEmpty)
  ELSE LET moved == [r \in AtOrBelow(p) |-> q \o SubSeq(r, Len(p) + 1, Len(r))]
           kept == DOMAIN tree \ (AtOrBelow(p) \cup {q})
       IN  /\ tree' = [r \in kept \cup {moved[o] : o \in AtOrBelow(p)} |->
                         IF r \in kept THEN tree[r] ELSE tree[CHOOSE o \in AtOrBelow(p) : moved[o] = r]]
           /\ result' = 0 /\ UNCHANGED <<inodes, fds>>

StatName(p) == Answers(IF ~Exists(p) THEN ErrNoEntry ELSE IF IsDir(p) THEN ErrIsDirectory ELSE Len(inodes[tree[p].inode]))
\* Entries in order, one by number; 0 says there is no more.
ListNames(p, index, room) ==
  Answers(IF ~IsDir(p) THEN IF Exists(p) THEN ErrNotDirectory ELSE ErrNoEntry
         ELSE IF index >= Cardinality(Children(p)) THEN 0
         ELSE IF room = 0 THEN ErrNameTooLong ELSE 1)
MakeDirectory(p) ==
  IF p = RootPath \/ Exists(p) THEN Answers(ErrExists)
  ELSE IF ~IsDir(Parent(p)) THEN Answers(IF Exists(Parent(p)) THEN ErrNotDirectory ELSE ErrNoEntry)
  ELSE tree' = Having(p, Directory) /\ result' = 0 /\ UNCHANGED <<inodes, fds>>

-----------------------------------------------------------------------------
HostFsInit ==
  /\ \E reads, writes \in BOOLEAN, n \in Names :
       tree = [p \in {RootPath, <<n>>} |-> IF p = RootPath THEN Directory ELSE [PlainFile(1) EXCEPT !.reads = reads \/ ~writes, !.writes = writes]]
  /\ inodes = [i \in {1} |-> <<1>>]
  /\ fds = [i \in 0..(MaxOpenFiles - 1) |-> Closed] /\ closing = MaxOpenFiles
  /\ handle = 0 /\ result = 0 /\ commands = MaxCommands
HostFsIdle == tree = [p \in {RootPath} |-> Directory] /\ inodes = [i \in {1} |-> <<>>] /\ fds = <<>> /\ closing = MaxOpenFiles /\ handle = 0 /\ result = 0 /\ commands = 0

\* The registers are written, then the command: a name that is no name is refused by every
\* command that takes one.
Runs == closing = MaxOpenFiles
Commanded(action) == Runs /\ commands > 0 /\ action /\ commands' = commands - 1 /\ UNCHANGED <<handle, closing>>
HandleWritten ==
  \E h \in 0..MaxOpenFiles : Runs /\ handle' = h /\ h # handle /\ commands > 0 /\ UNCHANGED <<tree, inodes, fds, closing, result, commands>>
FileCommand ==
  \/ Commanded(CloseFile) \/ Commanded(FileSize)
  \/ \E room \in 0..2 : Commanded(ReadFile(room))
  \/ \E bytes \in {<<>>} \cup {<<b>> : b \in Bytes} \cup {<<b, b>> : b \in Bytes} : (OpenAt # Closed => Len(inodes[OpenAt.inode]) < MaxSize) /\ Commanded(WriteFile(bytes))
  \/ \E whence \in 0..3, offset \in -1..1 : (OpenAt # Closed => OpenAt.pos <= MaxSize) /\ Commanded(SeekFile(whence, offset))
NameCommand ==
  \/ Commanded(Answers(ErrIo))   \* the host fails
  \/ \E what \in Wrong : Commanded(Answers(ErrorOf(what)))
  \/ \E p \in Named :
       \/ \E write, truncate, append, create, exclusive \in BOOLEAN, read \in BOOLEAN :
            Commanded(OpenFile(p, read, write, create, truncate, append, exclusive))
       \/ Commanded(RemoveName(p)) \/ Commanded(StatName(p)) \/ Commanded(MakeDirectory(p))
       \/ \E q \in Named : (Children(p) # {} => Len(q) <= Len(p)) /\ Commanded(RenameName(p, q))   \* no deeper than Named
       \/ \E index, room \in 0..1 : Commanded(ListNames(p, index, room))
\* The machine is reset: what was open is closed, one after another, and the registers but
\* one stay.
FsReset == Runs /\ commands > 0 /\ commands' = commands - 1 /\ closing' = 0 /\ UNCHANGED <<tree, inodes, fds, handle, result>>
CloseNext ==
  /\ ~Runs /\ ClosesSlot(closing) /\ closing' = closing + 1
  /\ result' = (IF closing + 1 = MaxOpenFiles THEN 0 ELSE result) /\ UNCHANGED <<handle, commands>>
HostFsNext == HandleWritten \/ FileCommand \/ NameCommand \/ FsReset \/ CloseNext

HostFsSpec == HostFsInit /\ [][HostFsNext]_hostFsVars

(***************************************************************************)
(* Properties.                                                             *)
(***************************************************************************)

\* A command that says it failed has done no more than this.  An open the host refuses half
\* way has made its file, or emptied one that may be written.  A write the host breaks off,
\* or any command on a file whose stream still holds bytes of such a write, may have written
\* to that one file, from the place it was to write at: nothing before it has changed and
\* nothing is cut off.  And no open file but the one of the command has moved, nor that one
\* unless something was read or written.
Place == IF OpenAt.append /\ OpenAt.held = <<>> THEN Len(Content) ELSE Lesser(OpenAt.pos, Len(Content))
MayWrite(r) == OpenAt # Closed /\ OpenAt.writer /\ (r = ErrIo \/ OpenAt.held # <<>>)
WritesOnFrom(i, place) == Len(inodes'[i]) >= Len(inodes[i]) /\ \A n \in 1..place : inodes'[i][n] = inodes[i][n]
Contained ==
  result' < 0 /\ commands' # commands =>
    /\ tree' # tree => result' = ErrAccess /\ \E p \in Named \ DOMAIN tree, i \in DOMAIN inodes' \ DOMAIN inodes :
                         tree' = Having(p, PlainFile(i)) /\ inodes'[i] = <<>>
    /\ \A i \in DOMAIN inodes : inodes'[i] # inodes[i] =>
         \/ result' = ErrAccess /\ inodes'[i] = <<>> /\ \E p \in DOMAIN tree : tree[p].inode = i /\ tree[p].writes
         \/ MayWrite(result') /\ i = OpenAt.inode /\ WritesOnFrom(i, Place)
    /\ \A h \in DOMAIN fds : fds'[h] # fds[h] =>
         /\ h = handle /\ (result' = ErrIo \/ OpenAt.held # <<>>)
         /\ fds'[h] = [fds[h] EXCEPT !.pos = fds'[h].pos, !.held = fds'[h].held]
FailuresAreContained == [][Contained]_hostFsVars

\* Two handles on one file: what an appending one writes never replaces what the other
\* wrote, wherever either has read or sought since and whether or not the host takes all of
\* it; but for a handle that still holds bytes of a write that failed, which are written
\* where that one was broken off.
NeverReplaces ==
  \A h \in DOMAIN fds : fds[h].append /\ fds[h].held = <<>> /\ fds'[h] # fds[h] /\ fds'[h].inode = fds[h].inode
    => \A i \in DOMAIN inodes : IsPrefix(inodes[i], inodes'[i])
AppendsNeverReplace == [][NeverReplaces]_hostFsVars

\* The host's files change only as a command that succeeds says, or a failed one may.
HostFilesAreSafe == FailuresAreContained /\ AppendsNeverReplace
=============================================================================
