-------------------------------- MODULE Mmu --------------------------------
(***************************************************************************)
(* The MMU of the Ceres CPU (libs/vm, Mmu): the two-level walk, the small  *)
(* fully associative TLB in front of it with its round-robin victim, the   *)
(* accessed and dirty bits it writes back, and the instructions that flush *)
(* it.  A program edits its tables with plain stores the MMU does not see. *)
(*                                                                         *)
(* A virtual page is a pair: its index in the directory and in the table.  *)
(* Regions that are never translated, and the offset in a page, are left   *)
(* out.                                                                    *)
(***************************************************************************)
EXTENDS Naturals

CONSTANTS
  Roots,    \* page directories: what PTBR may name, the zero of a reset included
  Root0,    \* PTBR after a reset
  Tables,   \* page tables
  Absent,   \* a directory entry that is not present
  Dirs,     \* indices in a directory
  Indices,  \* indices in a table
  Frames,   \* physical frames
  Refused,  \* no frame: the access faulted
  Stores,   \* what a program writes into a leaf
  NoEntry,  \* a place in the TLB that is not valid
  TlbSize,
  Starts,   \* the directories a program has before it turns paging on
  MaxEdits  \* bound: stores to the tables from then on

Vpns == Dirs \X Indices
Ptes == Tables \X Indices
Access == {"read", "write", "execute"}
Slots == 0 .. TlbSize - 1

Pte == [present : BOOLEAN, frame : Frames, writable : BOOLEAN, executable : BOOLEAN,
        accessed : BOOLEAN, dirty : BOOLEAN]

ASSUME RootAssumption == Root0 \in Roots /\ Absent \notin Tables /\ Refused \notin Frames
ASSUME StoreAssumption ==
  Stores \subseteq Pte /\ Starts \subseteq [Roots -> [Dirs -> Tables \cup {Absent}]]
ASSUME SizeAssumption == TlbSize \in Nat \ {0} /\ MaxEdits \in Nat

TlbEntry == [vpn : Vpns, frame : Frames, pte : Ptes,
             writable : BOOLEAN, executable : BOOLEAN, dirty : BOOLEAN]

ASSUME EntryAssumption == NoEntry \notin TlbEntry

VARIABLES
  directory,  \* memory: the directories
  leaf,       \* memory: the leaf entries of the tables
  edits,
  ptbr,       \* _ptbr
  tlb,        \* _tlb
  victim,     \* _tlbNextVictim
  fault,      \* _faultAddress: the page, or Refused before the first fault
  paging,     \* the Paging flag
  seen,       \* history: what the tables said of a page since it was last flushed
  restored    \* history: cached pages whose leaf the program stored to since

memory == <<directory, leaf, edits>>
cache == <<tlb, victim>>
history == <<seen, restored>>
vars == <<memory, ptbr, cache, fault, paging, history>>

(* What a walk finds for a page: where its leaf is, and what that grants.  *)
Mapped(dir, root, v) == dir[root][v[1]] # Absent
Place(dir, root, v) == <<dir[root][v[1]], v[2]>>
NotThere == [frame |-> Refused, writable |-> FALSE, executable |-> FALSE]
Meaning(p) ==
  IF p.present THEN [frame |-> p.frame, writable |-> p.writable, executable |-> p.executable]
               ELSE NotThere
Says(dir, lf, root, v) ==
  IF Mapped(dir, root, v) THEN Meaning(lf[Place(dir, root, v)]) ELSE NotThere
Now(v) == Says(directory, leaf, ptbr, v)

Grants(e, k) == (k = "write" => e.writable) /\ (k = "execute" => e.executable)
Given(e, k) == IF Grants(e, k) THEN e.frame ELSE Refused

Meanings == [frame : Frames \cup {Refused}, writable : BOOLEAN, executable : BOOLEAN]

TypeOK ==
  /\ directory \in [Roots -> [Dirs -> Tables \cup {Absent}]]
  /\ leaf \in [Ptes -> Pte]
  /\ edits \in Nat
  /\ ptbr \in Roots
  /\ tlb \in [Slots -> TlbEntry \cup {NoEntry}] /\ victim \in Slots
  /\ fault \in Vpns \cup {Refused}
  /\ paging \in BOOLEAN
  /\ seen \in [Vpns -> SUBSET Meanings]
  /\ restored \subseteq Vpns

-----------------------------------------------------------------------------
(* The TLB.                                                                *)

HitSlots(v) == {s \in Slots : tlb[s] # NoEntry /\ tlb[s].vpn = v}
Cached(v) == HitSlots(v) # {}
First(v) == CHOOSE s \in HitSlots(v) : \A u \in HitSlots(v) : s <= u

(* What a successful walk installs.                                        *)
Walked(v) ==
  LET p == leaf[Place(directory, ptbr, v)] IN
  [vpn |-> v, frame |-> p.frame, pte |-> Place(directory, ptbr, v),
   writable |-> p.writable, executable |-> p.executable, dirty |-> p.dirty]

Emptied == [s \in Slots |-> NoEntry]

(* Mutant: the page is dropped from the slot that is next to go.           *)
InvalidateMutant(v) == [tlb EXCEPT ![victim] = NoEntry]

(* invalidate(): the first entry of the page, and only that one.           *)
Invalidate(v) == IF Cached(v) THEN [tlb EXCEPT ![First(v)] = NoEntry] ELSE tlb

Init ==
  /\ directory \in Starts
  /\ leaf \in [Ptes -> Stores]
  /\ edits = 0
  /\ ptbr = Root0
  /\ tlb = Emptied /\ victim = 0
  /\ fault = Refused
  /\ paging = FALSE
  /\ seen = [v \in Vpns |-> {Now(v)}]
  /\ restored = {}

-----------------------------------------------------------------------------
(* translate().                                                            *)

(* Nothing is cached of a page that is not there.                          *)
NotPresent(v, k) ==
  /\ paging
  /\ ~Cached(v) /\ Now(v) = NotThere
  /\ fault' = v
  /\ seen' = [seen EXCEPT ![v] = {Now(v)}]
  /\ UNCHANGED <<memory, ptbr, cache, paging, restored>>

(* The first write through an entry marks its leaf, wherever that was      *)
(* found.                                                                  *)
Marks(e, k) == k = "write" /\ Grants(e, k) /\ ~e.dirty

Used(e, k) == [e EXCEPT !.dirty = @ \/ Marks(e, k)]

Refusal(v, e, k) == fault' = IF Grants(e, k) THEN fault ELSE v

Hit(v, k) ==
  /\ paging /\ Cached(v)
  /\ LET e == tlb[First(v)] IN
       /\ tlb' = [tlb EXCEPT ![First(v)] = Used(e, k)]
       /\ leaf' = [leaf EXCEPT ![e.pte].dirty = @ \/ Marks(e, k)]
       /\ Refusal(v, e, k)
  /\ UNCHANGED <<directory, edits, ptbr, victim, paging, seen, restored>>

(* The page that loses its place to a walk's.                              *)
Evicted == IF tlb[victim] = NoEntry THEN {} ELSE {tlb[victim].vpn}

NextVictim == (victim + 1) % TlbSize

(* A walk installs the entry before the access is looked at.               *)
Miss(v, k) ==
  /\ paging
  /\ ~Cached(v) /\ Now(v) # NotThere
  /\ LET e == Walked(v) IN
       /\ tlb' = [tlb EXCEPT ![victim] = Used(e, k)]
       /\ leaf' = [leaf EXCEPT ![e.pte].accessed = TRUE, ![e.pte].dirty = @ \/ Marks(e, k)]
       /\ Refusal(v, e, k)
       /\ restored' = restored \ ({v} \cup Evicted)
  /\ victim' = NextVictim
  /\ UNCHANGED <<directory, edits, ptbr, paging, seen>>

(* What translate() returns.                                               *)
Translate(v, k) ==
  IF Cached(v) THEN Given(tlb[First(v)], k)
  ELSE IF Now(v) = NotThere THEN Refused
  ELSE Given(Walked(v), k)

-----------------------------------------------------------------------------
(* The program.                                                            *)

Noted(dir, lf) == [v \in Vpns |-> seen[v] \cup {Says(dir, lf, ptbr, v)}]

(* A store to a leaf or to a directory, with nothing flushed.              *)
StoreLeaf(a, p) ==
  /\ edits < MaxEdits /\ edits' = edits + 1
  /\ leaf' = [leaf EXCEPT ![a] = p]
  /\ seen' = Noted(directory, leaf')
  /\ restored' = restored \cup {v \in Vpns : Cached(v) /\ tlb[First(v)].pte = a}
  /\ UNCHANGED <<directory, ptbr, cache, fault, paging>>

StoreDirectory(r, d, t) ==
  /\ edits < MaxEdits /\ edits' = edits + 1
  /\ directory' = [directory EXCEPT ![r][d] = t]
  /\ seen' = Noted(directory', leaf)
  /\ UNCHANGED <<leaf, ptbr, cache, fault, paging, restored>>

Flushed(root) == [v \in Vpns |-> {Says(directory, leaf, root, v)}]

Mtp(r) ==
  /\ ptbr' = r
  /\ tlb' = Emptied /\ victim' = 0
  /\ seen' = Flushed(r) /\ restored' = {}
  /\ UNCHANGED <<memory, fault, paging>>

Flpg ==
  /\ tlb' = Emptied /\ victim' = 0
  /\ seen' = Flushed(ptbr) /\ restored' = {}
  /\ UNCHANGED <<memory, ptbr, fault, paging>>

Invlpg(v) ==
  /\ tlb' = Invalidate(v)
  /\ seen' = [seen EXCEPT ![v] = {Now(v)}]
  /\ restored' = restored \ {v}
  /\ UNCHANGED <<memory, ptbr, victim, fault, paging>>

(* The TLB outlives PGOFF.                                                 *)
SetPaging(on) ==
  /\ paging' = on
  /\ UNCHANGED <<memory, ptbr, cache, fault, history>>

(* ExecutionEngine::reset(); the memory is loaded anew.                    *)
Reset ==
  /\ ptbr' = Root0 /\ tlb' = Emptied /\ victim' = 0 /\ fault' = Refused /\ paging' = FALSE
  /\ seen' = Flushed(Root0) /\ restored' = {}
  /\ UNCHANGED <<memory>>

Next ==
  \/ \E v \in Vpns, k \in Access : NotPresent(v, k) \/ Hit(v, k) \/ Miss(v, k)
  \/ \E a \in Ptes, p \in Stores : StoreLeaf(a, p)
  \/ \E r \in Roots, d \in Dirs, t \in Tables \cup {Absent} : StoreDirectory(r, d, t)
  \/ \E r \in Roots : Mtp(r)
  \/ \E v \in Vpns : Invlpg(v)
  \/ \E on \in BOOLEAN : SetPaging(on)
  \/ Flpg \/ Reset

Spec == Init /\ [][Next]_vars

-----------------------------------------------------------------------------
(* What it is for.                                                         *)

(* A page has one entry at most, so that invlpg may stop at the first it   *)
(* finds (invalidate()), whatever was walked, evicted and flushed before.  *)
OneEntryPerPage ==
  \A s, u \in Slots :
    (tlb[s] # NoEntry /\ tlb[u] # NoEntry /\ tlb[s].vpn = tlb[u].vpn) => s = u

(* An access is answered by what the tables said at some time since its    *)
(* page was last flushed, by invlpg, flpg or mtp: never by another page's  *)
(* entry or another address space's, and for a page not edited since, or   *)
(* last found not present, exactly as they say now (translate(); the retry *)
(* after a fault rests on it).                                             *)
AnswersFromTables ==
  \A v \in Vpns, k \in Access : \E m \in seen[v] : Translate(v, k) = Given(m, k)

(* An entry that will not mark its leaf again has marked it: a page that   *)
(* was written has its dirty bit in the tables, unless the program stored  *)
(* to the leaf behind the entry's back (TlbEntry::dirty).                  *)
DirtyMirrors ==
  \A s \in Slots :
    (tlb[s] # NoEntry /\ tlb[s].dirty /\ tlb[s].vpn \notin restored) => leaf[tlb[s].pte].dirty
=============================================================================
