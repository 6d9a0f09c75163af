---------------------------- MODULE MemoryProofs ----------------------------
(***************************************************************************)
(* The memory a program sees: Mmu, for TLBs and page tables of any size,   *)
(* and MemoryAccess, for pages, registers and maps of any size.            *)
(*                                                                         *)
(* What the TLB answers is what the tables said since the page was last    *)
(* flushed.  The invariant says of every entry where it came from; it      *)
(* needs that no page has two entries, for invlpg drops only one.          *)
(*                                                                         *)
(* A block that faults and is interrupted as often as one likes has done   *)
(* what a loop over single bytes does, no byte of the VRAM changes on a    *)
(* page that is not marked, and a fault leaves nothing behind that its     *)
(* handler would have to undo.  A loop over bytes is a function of how     *)
(* many it has gone, and what it makes of the memory is found by an        *)
(* induction on that number, which the library's orderings give for a set  *)
(* one has in hand.  A sequence of such stores is a run; a chunk is a run, *)
(* and what is left goes on from it.                                       *)
(***************************************************************************)
EXTENDS Mmu, MemoryAccess, FiniteSetTheorems, WellFoundedInduction, TLAPS

(***************************************************************************)
(* Mmu.                                                                    *)
(***************************************************************************)

(* What an entry answers.                                                  *)
Shown(e) == [frame |-> e.frame, writable |-> e.writable, executable |-> e.executable]

(* Every entry shows what the tables said of its page at some time since   *)
(* the page's last flush, and what they say now is among it.               *)
EntriesSeen == \A s \in Slots : tlb[s] # NoEntry => Shown(tlb[s]) \in seen[tlb[s].vpn]
NowSeen == \A v \in Vpns : Now(v) \in seen[v]

IInv == TypeOK /\ OneEntryPerPage /\ EntriesSeen /\ NowSeen /\ DirtyMirrors

-----------------------------------------------------------------------------
(* The operators.                                                          *)

LEMMA SlotFacts == victim \in Slots => NextVictim \in Slots /\ 0 \in Slots
BY SizeAssumption DEF Slots, NextVictim

(* The slot the search of translate() and invalidate() stops at.           *)
LEMMA FirstIs ==
  ASSUME OneEntryPerPage, NEW v, Cached(v)
  PROVE  /\ First(v) \in Slots /\ tlb[First(v)] # NoEntry /\ tlb[First(v)].vpn = v
         /\ \A s \in Slots : (tlb[s] # NoEntry /\ tlb[s].vpn = v) => s = First(v)
<1>1. PICK s \in Slots : tlb[s] # NoEntry /\ tlb[s].vpn = v
  BY DEF Cached, HitSlots
<1>2. \A u \in HitSlots(v) : u = s
  BY <1>1 DEF HitSlots, OneEntryPerPage
<1>3. s \in HitSlots(v) /\ \A u \in HitSlots(v) : s <= u
  BY <1>1, <1>2, SizeAssumption DEF HitSlots, Slots
<1>4. First(v) \in HitSlots(v)
  BY <1>3 DEF First
<1>. QED BY <1>1, <1>2, <1>4 DEF HitSlots

(* What the tables say is well formed.                                     *)
LEMMA SaysType ==
  ASSUME NEW dir \in [Roots -> [Dirs -> Tables \cup {Absent}]], NEW lf \in [Ptes -> Pte],
         NEW r \in Roots, NEW v \in Vpns
  PROVE  Says(dir, lf, r, v) \in Meanings
<1>1. NotThere \in Meanings
  BY DEF NotThere, Meanings
<1>2. CASE Mapped(dir, r, v)
  <2>1. Place(dir, r, v) \in Ptes
    BY <1>2 DEF Mapped, Place, Ptes, Vpns
  <2>2. lf[Place(dir, r, v)] \in Pte
    BY <2>1
  <2>3. Meaning(lf[Place(dir, r, v)]) \in Meanings
    BY <1>1, <2>2 DEF Meaning, Meanings, Pte
  <2>. QED BY <1>2, <2>3 DEF Says
<1>. QED BY <1>1, <1>2 DEF Says

(* A leaf may be marked without changing what the tables say.              *)
LEMMA SameMeaning ==
  ASSUME NEW lf \in [Ptes -> Pte], NEW lg \in [Ptes -> Pte],
         \A x \in Ptes : /\ lg[x].present = lf[x].present /\ lg[x].frame = lf[x].frame
                         /\ lg[x].writable = lf[x].writable /\ lg[x].executable = lf[x].executable,
         directory \in [Roots -> [Dirs -> Tables \cup {Absent}]], NEW r \in Roots, NEW v \in Vpns
  PROVE  Says(directory, lg, r, v) = Says(directory, lf, r, v)
<1>1. CASE Mapped(directory, r, v)
  <2>1. Place(directory, r, v) \in Ptes
    BY <1>1 DEF Mapped, Place, Ptes, Vpns
  <2>. QED BY <2>1 DEF Says, Meaning
<1>. QED BY <1>1 DEF Says

(* What a walk installs is what the tables say.                            *)
LEMMA WalkedIs ==
  ASSUME TypeOK, NEW v \in Vpns, Now(v) # NotThere
  PROVE  /\ Walked(v) \in TlbEntry /\ Walked(v) # NoEntry
         /\ Walked(v).vpn = v /\ Walked(v).pte \in Ptes
         /\ Walked(v).dirty = leaf[Walked(v).pte].dirty
         /\ Shown(Walked(v)) = Now(v)
<1>1. Mapped(directory, ptbr, v)
  BY DEF Now, Says
<1>2. PICK x : x = Place(directory, ptbr, v)
  OBVIOUS
<1>3. x \in Ptes
  BY <1>1, <1>2 DEF Mapped, Place, Ptes, Vpns, TypeOK
<1>4. leaf[x] \in Pte
  BY <1>3 DEF TypeOK
<1>5. Now(v) = Meaning(leaf[x])
  BY <1>1, <1>2 DEF Now, Says
<1>6. Walked(v) = [vpn |-> v, frame |-> leaf[x].frame, pte |-> x, writable |-> leaf[x].writable,
                   executable |-> leaf[x].executable, dirty |-> leaf[x].dirty]
  BY <1>2 DEF Walked
<1>7. Walked(v) \in TlbEntry
  BY <1>3, <1>4, <1>6 DEF TlbEntry, Pte
<1>8. Shown(Walked(v)) = Meaning(leaf[x])
  BY <1>5, <1>6 DEF Meaning, Shown
<1>. QED BY <1>3, <1>5, <1>6, <1>7, <1>8, EntryAssumption

(* Using an entry changes nothing but its dirty mark.                      *)
LEMMA UsedIs ==
  ASSUME NEW e \in TlbEntry, NEW k
  PROVE  /\ Used(e, k) \in TlbEntry /\ Used(e, k) # NoEntry
         /\ Used(e, k).vpn = e.vpn /\ Used(e, k).pte = e.pte
         /\ Shown(Used(e, k)) = Shown(e)
         /\ Used(e, k).dirty = (e.dirty \/ Marks(e, k))
<1>1. (e.dirty \/ Marks(e, k)) \in BOOLEAN
  OBVIOUS
<1>2. PICK d \in BOOLEAN : d = (e.dirty \/ Marks(e, k))
  BY <1>1
<1>3. Used(e, k) = [e EXCEPT !.dirty = d]
  BY <1>2 DEF Used
<1>4. [e EXCEPT !.dirty = d] \in TlbEntry
  BY DEF TlbEntry
<1>5. Used(e, k).dirty = d /\ Used(e, k).vpn = e.vpn /\ Used(e, k).pte = e.pte
      /\ Used(e, k).frame = e.frame /\ Used(e, k).writable = e.writable /\ Used(e, k).executable = e.executable
  BY <1>3 DEF TlbEntry
<1>. QED BY <1>2, <1>3, <1>4, <1>5, EntryAssumption DEF Shown

-----------------------------------------------------------------------------
(* The steps.                                                              *)

LEMMA InitOK == Init => IInv
<1>. SUFFICES ASSUME Init PROVE IInv
  OBVIOUS
<1>1. directory \in [Roots -> [Dirs -> Tables \cup {Absent}]] /\ leaf \in [Ptes -> Pte]
  BY StoreAssumption DEF Init
<1>2. ptbr \in Roots /\ tlb = [s \in Slots |-> NoEntry] /\ seen = [v \in Vpns |-> {Now(v)}]
  BY RootAssumption DEF Init, Emptied
<1>3. \A v \in Vpns : Now(v) \in Meanings
  BY <1>1, <1>2, SaysType DEF Now
<1>4. TypeOK
  <2>1. tlb \in [Slots -> TlbEntry \cup {NoEntry}] /\ victim \in Slots
    BY <1>2, SizeAssumption DEF Init, Slots
  <2>2. seen \in [Vpns -> SUBSET Meanings]
    BY <1>2, <1>3
  <2>. QED BY <1>1, <1>2, <2>1, <2>2 DEF Init, TypeOK
<1>5. OneEntryPerPage /\ EntriesSeen /\ DirtyMirrors
  BY <1>2 DEF OneEntryPerPage, EntriesSeen, DirtyMirrors
<1>6. NowSeen
  BY <1>2 DEF NowSeen
<1>. QED BY <1>4, <1>5, <1>6 DEF IInv

(* A step of the translation: it writes one slot and marks one leaf.       *)
AllMarked(lf, x) ==
  /\ lf[x].present = leaf[x].present /\ lf[x].frame = leaf[x].frame
  /\ lf[x].writable = leaf[x].writable /\ lf[x].executable = leaf[x].executable
  /\ leaf[x].dirty => lf[x].dirty

Rewrites(s) ==
  /\ tlb'[s] \in TlbEntry /\ tlb'[s] # NoEntry /\ Shown(tlb'[s]) \in seen[tlb'[s].vpn]
  /\ \A u \in Slots : u # s => tlb'[u] = tlb[u]
  /\ \A u \in Slots : (u # s /\ tlb[u] # NoEntry) => tlb[u].vpn # tlb'[s].vpn
  /\ \A u \in Slots : (u # s /\ tlb[u] # NoEntry /\ tlb[u].vpn \notin restored') => tlb[u].vpn \notin restored
  /\ (tlb'[s].dirty /\ tlb'[s].vpn \notin restored') => leaf'[tlb'[s].pte].dirty
  /\ leaf' \in [Ptes -> Pte] /\ \A x \in Ptes : AllMarked(leaf', x)

Rest ==
  /\ directory' = directory /\ edits' = edits /\ ptbr' = ptbr /\ paging' = paging /\ seen' = seen
  /\ victim' \in Slots /\ fault' \in Vpns \cup {Refused} /\ restored' \subseteq Vpns
  /\ DOMAIN tlb' = Slots /\ tlb' = [u \in Slots |-> tlb'[u]]

LEMMA SlotRewritten ==
  ASSUME IInv, NEW s \in Slots, Rewrites(s), Rest
  PROVE  IInv'
<1>. USE DEF IInv
<1>1. tlb \in [Slots -> TlbEntry \cup {NoEntry}]
  BY DEF TypeOK
<1>2. tlb' \in [Slots -> TlbEntry \cup {NoEntry}]
  <2>1. \A u \in Slots : tlb'[u] \in TlbEntry \cup {NoEntry}
    BY <1>1 DEF Rewrites
  <2>. QED BY <2>1 DEF Rest
<1>3. TypeOK'
  BY <1>2 DEF TypeOK, Rewrites, Rest
<1>4. OneEntryPerPage'
  BY DEF OneEntryPerPage, Rewrites
<1>5. EntriesSeen'
  BY DEF EntriesSeen, Rewrites, Rest
<1>6. NowSeen'
  <2>1. \A v \in Vpns : Says(directory, leaf', ptbr, v) = Says(directory, leaf, ptbr, v)
    BY SameMeaning DEF TypeOK, Rewrites, AllMarked
  <2>. QED BY <2>1 DEF NowSeen, Now, Rest
<1>7. DirtyMirrors'
  <2>. SUFFICES ASSUME NEW u \in Slots, tlb'[u] # NoEntry, tlb'[u].dirty, tlb'[u].vpn \notin restored'
                PROVE  leaf'[tlb'[u].pte].dirty
    BY DEF DirtyMirrors
  <2>1. CASE u = s
    BY <2>1 DEF Rewrites
  <2>2. CASE u # s
    <3>1. tlb'[u] = tlb[u]
      BY <2>2 DEF Rewrites
    <3>2. tlb[u].pte \in Ptes
      BY <1>1, <3>1 DEF TlbEntry
    <3>3. leaf[tlb[u].pte].dirty
      BY <2>2, <3>1 DEF DirtyMirrors, Rewrites
    <3>. QED BY <3>1, <3>2, <3>3 DEF Rewrites, AllMarked
  <2>. QED BY <2>1, <2>2
<1>. QED BY <1>3, <1>4, <1>5, <1>6, <1>7

LEMMA HitOK ==
  ASSUME IInv, NEW v \in Vpns, NEW k \in Access, Hit(v, k)
  PROVE  IInv'
<1>1. PICK s, e : s = First(v) /\ e = tlb[s]
  OBVIOUS
<1>2. s \in Slots /\ e # NoEntry /\ e.vpn = v /\ \A u \in Slots : (tlb[u] # NoEntry /\ tlb[u].vpn = v) => u = s
  BY <1>1, FirstIs DEF IInv, Hit
<1>3. e \in TlbEntry
  BY <1>1, <1>2 DEF IInv, TypeOK
<1>4. PICK g : g = Used(e, k)
  OBVIOUS
<1>5. g \in TlbEntry /\ g # NoEntry /\ g.vpn = v /\ g.pte = e.pte /\ Shown(g) = Shown(e)
      /\ g.dirty = (e.dirty \/ Marks(e, k))
  BY <1>2, <1>3, <1>4, UsedIs
<1>6. e.pte \in Ptes
  BY <1>3 DEF TlbEntry
<1>7. leaf \in [Ptes -> Pte]
  BY DEF IInv, TypeOK
<1>8. PICK d \in BOOLEAN : d = (leaf[e.pte].dirty \/ Marks(e, k))
  OBVIOUS
<1>9. PICK lf : lf = [leaf EXCEPT ![e.pte].dirty = d]
  OBVIOUS
<1>10. leaf' = lf /\ tlb' = [tlb EXCEPT ![s] = g]
       /\ UNCHANGED <<directory, edits, ptbr, victim, paging, seen, restored>>
       /\ fault' \in {fault, v}
  <2>1. leaf' = [leaf EXCEPT ![e.pte].dirty = @ \/ Marks(e, k)] /\ tlb' = [tlb EXCEPT ![s] = g]
    BY <1>1, <1>4 DEF Hit
  <2>. QED BY <1>8, <1>9, <2>1 DEF Hit, Refusal
<1>11. lf \in [Ptes -> Pte]
  BY <1>6, <1>7, <1>8, <1>9 DEF Pte
<1>12. \A x \in Ptes : AllMarked(lf, x)
  BY <1>6, <1>7, <1>8, <1>9 DEF AllMarked, Pte
<1>13. lf[e.pte].dirty = d
  BY <1>6, <1>7, <1>9 DEF Pte
<1>14. (g.dirty /\ v \notin restored) => lf[e.pte].dirty
  <2>1. (e.dirty /\ v \notin restored) => leaf[e.pte].dirty
    BY <1>1, <1>2 DEF IInv, DirtyMirrors
  <2>. QED BY <1>5, <1>8, <1>13, <2>1
<1>15. Shown(g) \in seen[v]
  BY <1>1, <1>2, <1>5 DEF IInv, EntriesSeen
<1>16. victim' \in Slots /\ fault' \in Vpns \cup {Refused} /\ restored' \subseteq Vpns /\ restored' = restored
  BY <1>10 DEF IInv, TypeOK
<1>17. tlb' \in [Slots -> TlbEntry \cup {NoEntry}] /\ tlb'[s] = g /\ \A u \in Slots : u # s => tlb'[u] = tlb[u]
  BY <1>2, <1>5, <1>10 DEF IInv, TypeOK
<1>18. Rewrites(s)
  BY <1>2, <1>5, <1>10, <1>11, <1>12, <1>14, <1>15, <1>16, <1>17 DEF Rewrites
<1>19. Rest
  BY <1>10, <1>16, <1>17 DEF Rest
<1>. QED BY <1>2, <1>18, <1>19, SlotRewritten

LEMMA MissOK ==
  ASSUME IInv, NEW v \in Vpns, NEW k \in Access, Miss(v, k)
  PROVE  IInv'
<1>1. PICK e : e = Walked(v)
  OBVIOUS
<1>2. e \in TlbEntry /\ e # NoEntry /\ e.vpn = v /\ e.pte \in Ptes /\ e.dirty = leaf[e.pte].dirty
      /\ Shown(e) = Now(v)
  BY <1>1, WalkedIs DEF IInv, Miss
<1>3. PICK g : g = Used(e, k)
  OBVIOUS
<1>4. g \in TlbEntry /\ g # NoEntry /\ g.vpn = v /\ g.pte = e.pte /\ Shown(g) = Shown(e)
      /\ g.dirty = (e.dirty \/ Marks(e, k))
  BY <1>2, <1>3, UsedIs
<1>5. leaf \in [Ptes -> Pte] /\ victim \in Slots
  BY DEF IInv, TypeOK
<1>6. PICK d \in BOOLEAN : d = (leaf[e.pte].dirty \/ Marks(e, k))
  OBVIOUS
<1>7. PICK lf : lf = [leaf EXCEPT ![e.pte].accessed = TRUE, ![e.pte].dirty = d]
  OBVIOUS
<1>8. /\ leaf' = lf /\ tlb' = [tlb EXCEPT ![victim] = g]
      /\ UNCHANGED <<directory, edits, ptbr, paging, seen>>
      /\ fault' \in {fault, v} /\ victim' = NextVictim
      /\ restored' = restored \ ({v} \cup Evicted)
  <2>1. leaf' = [leaf EXCEPT ![e.pte].accessed = TRUE, ![e.pte].dirty = @ \/ Marks(e, k)]
        /\ tlb' = [tlb EXCEPT ![victim] = g]
    BY <1>1, <1>3 DEF Miss
  <2>. QED BY <1>6, <1>7, <2>1 DEF Miss, Refusal
<1>9. lf \in [Ptes -> Pte]
  <2>1. PICK h : h = [leaf EXCEPT ![e.pte].accessed = TRUE]
    OBVIOUS
  <2>2. h \in [Ptes -> Pte]
    BY <1>2, <1>5, <2>1 DEF Pte
  <2>3. lf = [h EXCEPT ![e.pte].dirty = d]
    BY <1>7, <2>1
  <2>. QED BY <1>2, <1>6, <2>2, <2>3 DEF Pte
<1>10. \A x \in Ptes : AllMarked(lf, x)
  BY <1>2, <1>5, <1>6, <1>7 DEF AllMarked, Pte
<1>11. lf[e.pte].dirty = d
  BY <1>2, <1>5, <1>7 DEF Pte
<1>12. \A u \in Slots : ~(tlb[u] # NoEntry /\ tlb[u].vpn = v)
  BY DEF Miss, Cached, HitSlots
<1>13. \A u \in Slots \ {victim} : (tlb[u] # NoEntry /\ tlb[u].vpn \notin restored') => tlb[u].vpn \notin restored
  <2>. SUFFICES ASSUME NEW u \in Slots \ {victim}, tlb[u] # NoEntry, tlb[u].vpn \in restored
                PROVE  tlb[u].vpn \in restored'
    OBVIOUS
  <2>1. tlb[u].vpn # v
    BY <1>12
  <2>2. tlb[u].vpn \notin Evicted
    BY <1>5 DEF Evicted, IInv, OneEntryPerPage
  <2>. QED BY <1>8, <2>1, <2>2
<1>14. (g.dirty /\ v \notin restored') => lf[e.pte].dirty
  BY <1>2, <1>4, <1>6, <1>11
<1>15. Shown(g) \in seen[v]
  BY <1>2, <1>4 DEF IInv, NowSeen
<1>16. victim' \in Slots /\ fault' \in Vpns \cup {Refused} /\ restored' \subseteq Vpns
  BY <1>5, <1>8, SlotFacts DEF IInv, TypeOK
<1>17. tlb' \in [Slots -> TlbEntry \cup {NoEntry}] /\ tlb'[victim] = g
       /\ \A u \in Slots : u # victim => tlb'[u] = tlb[u]
  BY <1>4, <1>5, <1>8 DEF IInv, TypeOK
<1>18. Rewrites(victim)
  BY <1>4, <1>8, <1>9, <1>10, <1>12, <1>13, <1>14, <1>15, <1>17 DEF Rewrites
<1>19. Rest
  BY <1>8, <1>16, <1>17 DEF Rest
<1>. QED BY <1>5, <1>18, <1>19, SlotRewritten


(* A store the MMU does not see: the entries of the leaf are written down. *)
LEMMA StoreLeafOK ==
  ASSUME IInv, NEW a \in Ptes, NEW p \in Stores, StoreLeaf(a, p)
  PROVE  IInv'
<1>1. /\ leaf' \in [Ptes -> Pte] /\ \A x \in Ptes : x # a => leaf'[x] = leaf[x]
      /\ directory' = directory /\ ptbr' = ptbr /\ tlb' = tlb
  BY StoreAssumption DEF StoreLeaf, IInv, TypeOK, cache
<1>2. seen' = [v \in Vpns |-> seen[v] \cup {Says(directory, leaf', ptbr, v)}]
  BY DEF StoreLeaf, Noted
<1>3. TypeOK'
  <2>1. \A v \in Vpns : Says(directory, leaf', ptbr, v) \in Meanings
    BY <1>1, SaysType DEF IInv, TypeOK
  <2>2. seen' \in [Vpns -> SUBSET Meanings]
    BY <1>2, <2>1 DEF IInv, TypeOK
  <2>3. edits' \in Nat /\ victim' = victim /\ fault' = fault /\ paging' = paging
    BY DEF StoreLeaf, IInv, TypeOK, cache
  <2>4. restored' \subseteq Vpns
    BY DEF StoreLeaf, IInv, TypeOK
  <2>. QED BY <1>1, <2>2, <2>3, <2>4 DEF IInv, TypeOK
<1>4. OneEntryPerPage'
  BY <1>1 DEF IInv, OneEntryPerPage
<1>5. EntriesSeen'
  BY <1>1, <1>2 DEF IInv, TypeOK, EntriesSeen, TlbEntry
<1>6. NowSeen'
  BY <1>1, <1>2 DEF NowSeen, Now
<1>7. DirtyMirrors'
  <2>. SUFFICES ASSUME NEW s \in Slots, tlb[s] # NoEntry, tlb[s].dirty, tlb[s].vpn \notin restored'
                PROVE  leaf'[tlb[s].pte].dirty
    BY <1>1 DEF DirtyMirrors
  <2>1. tlb[s].vpn \in Vpns /\ tlb[s].pte \in Ptes
    BY DEF IInv, TypeOK, TlbEntry
  <2>2. Cached(tlb[s].vpn)
    BY DEF Cached, HitSlots
  <2>3. s = First(tlb[s].vpn)
    BY <2>2, FirstIs DEF IInv
  <2>4. tlb[s].pte # a /\ tlb[s].vpn \notin restored
    BY <2>1, <2>2, <2>3 DEF StoreLeaf
  <2>. QED BY <1>1, <2>1, <2>4 DEF IInv, DirtyMirrors
<1>. QED BY <1>3, <1>4, <1>5, <1>6, <1>7 DEF IInv

LEMMA StoreDirectoryOK ==
  ASSUME IInv, NEW r \in Roots, NEW d \in Dirs, NEW t \in Tables \cup {Absent}, StoreDirectory(r, d, t)
  PROVE  IInv'
<1>1. /\ directory' \in [Roots -> [Dirs -> Tables \cup {Absent}]]
      /\ leaf' = leaf /\ ptbr' = ptbr /\ tlb' = tlb /\ restored' = restored
  BY DEF StoreDirectory, IInv, TypeOK, cache
<1>2. seen' = [v \in Vpns |-> seen[v] \cup {Says(directory', leaf, ptbr, v)}]
  BY DEF StoreDirectory, Noted
<1>3. TypeOK'
  <2>1. \A v \in Vpns : Says(directory', leaf, ptbr, v) \in Meanings
    BY <1>1, SaysType DEF IInv, TypeOK
  <2>2. seen' \in [Vpns -> SUBSET Meanings]
    BY <1>2, <2>1 DEF IInv, TypeOK
  <2>3. edits' \in Nat /\ victim' = victim /\ fault' = fault /\ paging' = paging
    BY DEF StoreDirectory, IInv, TypeOK, cache
  <2>. QED BY <1>1, <2>2, <2>3 DEF IInv, TypeOK
<1>4. OneEntryPerPage' /\ DirtyMirrors'
  BY <1>1 DEF IInv, OneEntryPerPage, DirtyMirrors
<1>5. EntriesSeen'
  BY <1>1, <1>2 DEF IInv, TypeOK, EntriesSeen, TlbEntry
<1>6. NowSeen'
  BY <1>1, <1>2 DEF NowSeen, Now
<1>. QED BY <1>3, <1>4, <1>5, <1>6 DEF IInv

(* Whatever empties the TLB forgets every page at once.                    *)
LEMMA EmptiedOK ==
  ASSUME IInv, NEW r \in Roots, ptbr' = r, tlb' = Emptied, victim' = 0, UNCHANGED memory,
         seen' = Flushed(r), restored' = {}, fault' \in {fault, Refused}, paging' \in BOOLEAN
  PROVE  IInv'
<1>1. directory' = directory /\ leaf' = leaf /\ edits' = edits
  BY DEF memory
<1>2. tlb' = [s \in Slots |-> NoEntry]
  BY DEF Emptied
<1>3. seen' = [v \in Vpns |-> {Says(directory, leaf, r, v)}]
  BY DEF Flushed
<1>4. TypeOK'
  <2>1. \A v \in Vpns : Says(directory, leaf, r, v) \in Meanings
    BY SaysType DEF IInv, TypeOK
  <2>2. seen' \in [Vpns -> SUBSET Meanings]
    BY <1>3, <2>1
  <2>3. tlb' \in [Slots -> TlbEntry \cup {NoEntry}] /\ 0 \in Slots
    BY <1>2, SlotFacts DEF IInv, TypeOK
  <2>. QED BY <1>1, <2>2, <2>3 DEF IInv, TypeOK
<1>5. OneEntryPerPage' /\ EntriesSeen' /\ DirtyMirrors'
  BY <1>2 DEF OneEntryPerPage, EntriesSeen, DirtyMirrors
<1>6. NowSeen'
  BY <1>1, <1>3 DEF NowSeen, Now
<1>. QED BY <1>4, <1>5, <1>6 DEF IInv

(* Dropping the first entry of a page drops the page.                      *)
LEMMA InvlpgOK ==
  ASSUME IInv, NEW v \in Vpns, Invlpg(v)
  PROVE  IInv'
<1>1. /\ directory' = directory /\ leaf' = leaf /\ edits' = edits /\ ptbr' = ptbr
      /\ victim' = victim /\ fault' = fault /\ paging' = paging
      /\ restored' = restored \ {v} /\ seen' = [seen EXCEPT ![v] = {Now(v)}]
  BY DEF Invlpg, memory
<1>2. tlb' \in [Slots -> TlbEntry \cup {NoEntry}]
      /\ \A s \in Slots : tlb'[s] # NoEntry => (tlb'[s] = tlb[s] /\ tlb[s].vpn # v)
  <2>1. CASE Cached(v)
    <3>1. First(v) \in Slots /\ \A s \in Slots : (tlb[s] # NoEntry /\ tlb[s].vpn = v) => s = First(v)
      BY <2>1, FirstIs DEF IInv
    <3>2. tlb' = [tlb EXCEPT ![First(v)] = NoEntry]
      BY <2>1 DEF Invlpg, Invalidate
    <3>. QED BY <3>1, <3>2 DEF IInv, TypeOK
  <2>2. CASE ~Cached(v)
    <3>1. tlb' = tlb
      BY <2>2 DEF Invlpg, Invalidate
    <3>. QED BY <2>2, <3>1 DEF Cached, HitSlots, IInv, TypeOK
  <2>. QED BY <2>1, <2>2
<1>3. TypeOK'
  <2>1. Now(v) \in Meanings
    BY SaysType DEF Now, IInv, TypeOK
  <2>2. seen' \in [Vpns -> SUBSET Meanings]
    BY <1>1, <2>1 DEF IInv, TypeOK
  <2>. QED BY <1>1, <1>2, <2>2 DEF IInv, TypeOK
<1>4. OneEntryPerPage'
  BY <1>2 DEF IInv, OneEntryPerPage
<1>5. EntriesSeen'
  BY <1>1, <1>2 DEF IInv, TypeOK, EntriesSeen
<1>6. NowSeen'
  BY <1>1 DEF IInv, TypeOK, NowSeen, Now
<1>7. DirtyMirrors'
  BY <1>1, <1>2 DEF IInv, DirtyMirrors
<1>. QED BY <1>3, <1>4, <1>5, <1>6, <1>7 DEF IInv

LEMMA NotPresentOK ==
  ASSUME IInv, NEW v \in Vpns, NEW k \in Access, NotPresent(v, k)
  PROVE  IInv'
<1>1. /\ directory' = directory /\ leaf' = leaf /\ edits' = edits /\ ptbr' = ptbr
      /\ tlb' = tlb /\ victim' = victim /\ fault' = v /\ paging' = paging
      /\ restored' = restored /\ seen' = [seen EXCEPT ![v] = {Now(v)}]
  BY DEF NotPresent, memory, cache
<1>2. \A s \in Slots : tlb[s] # NoEntry => tlb[s].vpn # v
  BY DEF NotPresent, Cached, HitSlots
<1>3. TypeOK'
  <2>1. Now(v) \in Meanings
    BY SaysType DEF Now, IInv, TypeOK
  <2>2. seen' \in [Vpns -> SUBSET Meanings]
    BY <1>1, <2>1 DEF IInv, TypeOK
  <2>. QED BY <1>1, <2>2 DEF IInv, TypeOK
<1>4. OneEntryPerPage' /\ DirtyMirrors'
  BY <1>1 DEF IInv, OneEntryPerPage, DirtyMirrors
<1>5. EntriesSeen'
  BY <1>1, <1>2 DEF IInv, TypeOK, EntriesSeen
<1>6. NowSeen'
  BY <1>1 DEF IInv, TypeOK, NowSeen, Now
<1>. QED BY <1>3, <1>4, <1>5, <1>6 DEF IInv

(* A step that touches neither the tables nor the TLB.                     *)
LEMMA AsideOK ==
  ASSUME IInv, UNCHANGED <<memory, ptbr, cache, fault, history>>, paging' \in BOOLEAN
  PROVE  IInv'
<1>1. /\ directory' = directory /\ leaf' = leaf /\ edits' = edits /\ ptbr' = ptbr
      /\ tlb' = tlb /\ victim' = victim /\ fault' = fault /\ restored' = restored /\ seen' = seen
  BY DEF memory, cache, history
<1>2. TypeOK'
  BY <1>1 DEF IInv, TypeOK
<1>3. OneEntryPerPage' /\ DirtyMirrors' /\ EntriesSeen' /\ NowSeen'
  BY <1>1 DEF IInv, OneEntryPerPage, DirtyMirrors, EntriesSeen, NowSeen, Now
<1>. QED BY <1>2, <1>3 DEF IInv

LEMMA StepOK == IInv /\ [Next]_vars => IInv'
<1>. SUFFICES ASSUME IInv, [Next]_vars PROVE IInv'
  OBVIOUS
<1>1. ASSUME NEW v \in Vpns, NEW k \in Access, NotPresent(v, k) \/ Hit(v, k) \/ Miss(v, k) PROVE IInv'
  BY <1>1, NotPresentOK, HitOK, MissOK
<1>2. ASSUME NEW a \in Ptes, NEW p \in Stores, StoreLeaf(a, p) PROVE IInv'
  BY <1>2, StoreLeafOK
<1>3. ASSUME NEW r \in Roots, NEW d \in Dirs, NEW t \in Tables \cup {Absent}, StoreDirectory(r, d, t)
      PROVE  IInv'
  BY <1>3, StoreDirectoryOK
<1>4. ASSUME NEW r \in Roots, Mtp(r) PROVE IInv'
  BY <1>4, EmptiedOK DEF Mtp, IInv, TypeOK
<1>5. CASE Flpg
  <2>1. ptbr \in Roots /\ ptbr' = ptbr /\ fault' \in {fault, Refused} /\ paging' \in BOOLEAN
    BY <1>5 DEF Flpg, IInv, TypeOK
  <2>2. tlb' = Emptied /\ victim' = 0 /\ UNCHANGED memory /\ seen' = Flushed(ptbr) /\ restored' = {}
    BY <1>5 DEF Flpg
  <2>. QED BY <2>1, <2>2, EmptiedOK
<1>6. CASE Reset
  BY <1>6, EmptiedOK, RootAssumption DEF Reset
<1>7. ASSUME NEW v \in Vpns, Invlpg(v) PROVE IInv'
  BY <1>7, InvlpgOK
<1>8. ASSUME NEW on \in BOOLEAN, SetPaging(on) PROVE IInv'
  BY <1>8, AsideOK DEF SetPaging
<1>9. CASE UNCHANGED vars
  BY <1>9, AsideOK DEF vars, IInv, TypeOK
<1>. QED BY <1>1, <1>2, <1>3, <1>4, <1>5, <1>6, <1>7, <1>8, <1>9 DEF Next

-----------------------------------------------------------------------------
(* What it gives.                                                          *)

THEOREM InductiveInvariant == Spec => []IInv
BY InitOK, StepOK, PTL DEF Spec

(* The state is well formed.                                               *)
THEOREM TypeCorrect == Spec => []TypeOK
<1>1. IInv => TypeOK
  BY DEF IInv
<1>. QED BY <1>1, InductiveInvariant, PTL

(* invalidate() may stop at the first entry it finds.                      *)
THEOREM PagesHaveOneEntry == Spec => []OneEntryPerPage
<1>1. IInv => OneEntryPerPage
  BY DEF IInv
<1>. QED BY <1>1, InductiveInvariant, PTL

(* translate() never answers with another page's entry or another address  *)
(* space's, nor with what the tables stopped saying before the page's last *)
(* flush.                                                                  *)
THEOREM AnswersAreTheTables == Spec => []AnswersFromTables
<1>1. IInv => AnswersFromTables
  <2>. SUFFICES ASSUME IInv, NEW v \in Vpns, NEW k \in Access
                PROVE  \E m \in seen[v] : Translate(v, k) = Given(m, k)
    BY DEF AnswersFromTables
  <2>1. ASSUME NEW e, Shown(e) \in seen[v]
        PROVE  \E m \in seen[v] : Given(e, k) = Given(m, k)
    <3>1. Given(Shown(e), k) = Given(e, k)
      BY DEF Shown, Given, Grants
    <3>. QED BY <2>1, <3>1
  <2>2. CASE Cached(v)
    <3>1. Shown(tlb[First(v)]) \in seen[v]
      BY <2>2, FirstIs DEF IInv, EntriesSeen
    <3>. QED BY <2>1, <2>2, <3>1 DEF Translate
  <2>3. CASE ~Cached(v) /\ Now(v) = NotThere
    <3>1. NotThere \in seen[v]
      BY <2>3 DEF IInv, NowSeen
    <3>2. Given(NotThere, k) = Refused
      BY DEF Given, NotThere
    <3>. QED BY <2>3, <3>1, <3>2 DEF Translate
  <2>4. CASE ~Cached(v) /\ Now(v) # NotThere
    <3>1. Shown(Walked(v)) \in seen[v]
      BY <2>4, WalkedIs DEF IInv, NowSeen
    <3>. QED BY <2>1, <2>4, <3>1 DEF Translate
  <2>. QED BY <2>2, <2>3, <2>4
<1>. QED BY <1>1, InductiveInvariant, PTL

(* A written page has its dirty bit in the tables.                         *)
THEOREM DirtyBitsMirror == Spec => []DirtyMirrors
<1>1. IInv => DirtyMirrors
  BY DEF IInv
<1>. QED BY <1>1, InductiveInvariant, PTL

(***************************************************************************)
(* MemoryAccess.                                                           *)
(***************************************************************************)

(* The least of some numbers, and with it an induction up to a number.      *)
LEMMA Least ==
    ASSUME NEW S \in SUBSET Nat, S # {}
    PROVE  \E n \in S : \A m \in S : n <= m
<1> DEFINE R == StrictSubsetOrdering(Nat)
           F == FiniteSubsetsOf(Nat)
           I == {1 .. n : n \in S}
<1>1. IsWellFoundedOn(R, F)
    BY FS_StrictSubsetOrderingWellFounded
<1>2. I \subseteq F /\ I # {}
    <2>1. \A n \in Nat : 1 .. n \in FiniteSubsetsOf(Nat)
        BY FS_Interval DEF FiniteSubsetsOf
    <2> QED
        BY <2>1
<1>3. \E x \in I : \A y \in I : <<y, x>> \notin R
    <2> HIDE DEF R, F, I
    <2> QED
        BY <1>1, <1>2, WFMin
<1>4. PICK n \in S : \A m \in S : <<1 .. m, 1 .. n>> \notin R
    BY <1>3
<1>5. ASSUME NEW m \in S, m < n PROVE FALSE
    <2>1. n \in 1 .. n /\ n \notin 1 .. m
        BY <1>5
    <2>2. 1 .. m \subseteq 1 .. n /\ 1 .. m # 1 .. n /\ 1 .. m \subseteq Nat /\ 1 .. n \subseteq Nat
        BY <1>5, <2>1
    <2>3. <<1 .. m, 1 .. n>> \in R
        BY <2>2, Zenon DEF StrictSubsetOrdering
    <2> QED
        BY <1>4, <2>3
<1> QED
    BY <1>4, <1>5

LEMMA UpTo ==
  ASSUME NEW n \in Nat, NEW S, 0 \in S, \A k \in 0 .. n - 1 : k \in S => k + 1 \in S
  PROVE  0 .. n \subseteq S
<1> SUFFICES ASSUME ~(0 .. n \subseteq S) PROVE FALSE
  OBVIOUS
<1> DEFINE bad == {k \in 0 .. n : k \notin S}
<1>1. bad \in SUBSET Nat /\ bad # {}
  OBVIOUS
<1>2. PICK k \in bad : \A j \in bad : k <= j
  <2> HIDE DEF bad
  <2> QED
    BY <1>1, Least
<1>3. k # 0 /\ k \in 0 .. n /\ k \notin S
  BY <1>2
<1>4. k - 1 \in 0 .. n - 1 /\ k - 1 \in S
  BY <1>2, <1>3
<1> QED
  BY <1>3, <1>4

(* Division of natural numbers.                                             *)
LEMMA Division ==
    ASSUME NEW a \in Nat, NEW b \in Nat \ {0}
    PROVE  a \div b \in Nat /\ a % b \in 0 .. b - 1 /\ a = b * (a \div b) + (a % b)
<1>1. a % b \in 0 .. b - 1
    BY SMT
<1>2. a = b * (a \div b) + (a % b)
    BY SMT
<1>3. a \div b \in Nat
    BY SMT
<1> QED
    BY <1>1, <1>2, <1>3

LEMMA OneQuotient ==
  ASSUME NEW b \in Nat \ {0}, NEW q \in Nat, NEW r \in 0 .. b - 1
  PROVE  (b * q + r) \div b = q /\ (b * q + r) % b = r
<1> DEFINE a == b * q + r
<1>1. a \in Nat /\ b * q \in Nat
  OBVIOUS
<1>2. a \div b \in Nat /\ a % b \in 0 .. b - 1 /\ a = b * (a \div b) + (a % b)
  BY <1>1, Division
<1> DEFINE p == a \div b
           s == a % b
<1>3. p \in Nat /\ s \in 0 .. b - 1 /\ b * p + s = b * q + r
  BY <1>2
<1> HIDE DEF p, s, a
<1>4. p = q
  <2>1. CASE p < q
    <3>1. p + 1 <= q
      BY <1>3, <2>1
    <3>2. b * (p + 1) <= b * q
      BY <1>3, <3>1
    <3>3. b * (p + 1) = b * p + b
      BY <1>3
    <3>4. b * p \in Nat /\ b * q \in Nat
      BY <1>3
    <3> QED
      BY <1>3, <3>2, <3>3, <3>4
  <2>2. CASE q < p
    <3>1. q + 1 <= p
      BY <1>3, <2>2
    <3>2. b * (q + 1) <= b * p
      BY <1>3, <3>1
    <3>3. b * (q + 1) = b * q + b
      BY <1>3
    <3>4. b * p \in Nat /\ b * q \in Nat
      BY <1>3
    <3> QED
      BY <1>3, <3>2, <3>3, <3>4
  <2> QED
    BY <1>3, <2>1, <2>2
<1>5. s = r
  BY <1>3, <1>4
<1> QED
  BY <1>4, <1>5 DEF p, s, a

LEMMA SumsWrap ==
  ASSUME NEW b \in Nat \ {0}, NEW x \in Nat, NEW n \in Nat
  PROVE  ((x % b) + n) % b = (x + n) % b /\ (x < b => x % b = x)
<1> DEFINE q == x \div b
           r == x % b
           p == (r + n) \div b
           t == (r + n) % b
<1>1. q \in Nat /\ r \in 0 .. b - 1 /\ x = b * q + r
  BY Division
<1>2. p \in Nat /\ t \in 0 .. b - 1 /\ r + n = b * p + t
  <2> HIDE DEF q, r
  <2>1. r + n \in Nat
    BY <1>1
  <2> QED
    BY <2>1, Division
<1> HIDE DEF q, r, p, t
<1>3. x + n = b * (q + p) + t
  <2>1. b * (q + p) = b * q + b * p
    BY <1>1, <1>2
  <2> QED
    BY <1>1, <1>2, <2>1
<1>4. (x + n) % b = t
  <2> DEFINE w == q + p
  <2>1. w \in Nat /\ x + n = b * w + t
    BY <1>1, <1>2, <1>3
  <2> HIDE DEF w
  <2> QED
    BY <1>2, <2>1, OneQuotient
<1>5. x < b => x % b = x
  <2>1. b * 0 + x = x
    OBVIOUS
  <2> QED
    BY <2>1, OneQuotient
<1> QED
  BY <1>4, <1>5 DEF t, r

LEMMA Products ==
  ASSUME NEW a \in Nat, NEW b \in Nat, NEW c \in Nat \ {0}
  PROVE  c * a \in Nat /\ (a <= b => c * a <= c * b) /\ (c * a < c * b => a < b) /\ c * (a + 1) = c * a + c
BY SMT

-----------------------------------------------------------------------------
(* Addresses                                                                *)

N == Cardinality(DOMAIN home)
MapOK == N \in Nat \ {0} /\ home \in [0 .. N - 1 -> 0 .. N - 1]

LEMMA SpaceFacts ==
  ASSUME MapOK
  PROVE  AddressSpace \in Nat \ {0} /\ AddressSpace = PageSize * N
         /\ \A a \in Nat : Wrap(a) \in 0 .. AddressSpace - 1
<1>1. AddressSpace = PageSize * N
  BY DEF AddressSpace, SpaceOf, N
<1>2. AddressSpace \in Nat \ {0}
  <2>1. PageSize * N \in Nat /\ PageSize * N # 0
    BY AccessAssumption DEF MapOK
  <2> QED
    BY <1>1, <2>1
<1> QED
  BY <1>1, <1>2, Division DEF Wrap

(* A frame lies in the space, whole.                                        *)
LEMMA FrameFits ==
  ASSUME MapOK, NEW f \in 0 .. N - 1, NEW r \in 0 .. PageSize - 1
  PROVE  f * PageSize + r \in 0 .. AddressSpace - 1 /\ f * PageSize = PageSize * f
<1>1. f \in Nat /\ f + 1 \in Nat /\ N \in Nat /\ f + 1 <= N /\ PageSize \in Nat \ {0}
  BY AccessAssumption DEF MapOK
<1>2. PageSize * (f + 1) <= PageSize * N /\ PageSize * (f + 1) = PageSize * f + PageSize /\ PageSize * f \in Nat
  BY <1>1, Products
<1>3. f * PageSize = PageSize * f
  BY <1>1
<1>4. AddressSpace = PageSize * N /\ AddressSpace \in Nat
  BY SpaceFacts
<1> QED
  BY <1>1, <1>2, <1>3, <1>4

(* Within a page the physical address goes along with the virtual one.      *)
LEMMA Window ==
  ASSUME MapOK, NEW a \in 0 .. AddressSpace - 1, NEW k \in Nat, k < Left(a)
  PROVE  /\ Wrap(a + k) = a + k /\ a + k \in 0 .. AddressSpace - 1
         /\ Physical(a + k) = Physical(a) + k
         /\ Physical(a) \in Nat /\ Physical(a) + k \in 0 .. AddressSpace - 1
<1> DEFINE q == Page(a)
           r == a % PageSize
<1>1. PageSize \in Nat \ {0} /\ a \in Nat /\ AddressSpace \in Nat \ {0} /\ AddressSpace = PageSize * N /\ N \in Nat
  <2>1. AddressSpace \in Nat \ {0} /\ AddressSpace = PageSize * N
    BY SpaceFacts
  <2> QED
    BY <2>1, AccessAssumption DEF MapOK
<1>2. q \in Nat /\ r \in 0 .. PageSize - 1 /\ a = PageSize * q + r
  BY <1>1, Division DEF Page
<1>3. r + k \in 0 .. PageSize - 1
  BY <1>1, <1>2 DEF Left
<1>4. (a + k) \div PageSize = q /\ (a + k) % PageSize = r + k
  <2> HIDE DEF q, r
  <2>1. a + k = PageSize * q + (r + k)
    <3>1. PageSize * q \in Nat
      BY <1>1, <1>2
    <3> QED
      BY <1>2, <3>1
  <2> DEFINE w == r + k
  <2>2. w \in 0 .. PageSize - 1 /\ a + k = PageSize * q + w
    BY <1>3, <2>1
  <2> HIDE DEF w
  <2>3. PageSize \in Nat \ {0} /\ q \in Nat
    BY <1>1, <1>2
  <2>4. (PageSize * q + w) \div PageSize = q /\ (PageSize * q + w) % PageSize = w
    BY <2>2, <2>3, OneQuotient
  <2>5. (a + k) \div PageSize = q /\ (a + k) % PageSize = w
    BY <2>2, <2>4
  <2> QED
    BY <2>5 DEF w
<1>5. q \in 0 .. N - 1
  <2>1. PageSize * q < PageSize * N
    <3> HIDE DEF q, r
    <3>1. PageSize * q \in Nat
      BY <1>1, <1>2
    <3> QED
      BY <1>1, <1>2, <3>1
  <2> HIDE DEF q
  <2> QED
    BY <1>1, <1>2, <2>1, Products
<1>6. a + k \in 0 .. AddressSpace - 1
  <2>1. q * PageSize + (r + k) \in 0 .. AddressSpace - 1 /\ q * PageSize = PageSize * q
    <3> HIDE DEF q, r
    <3> QED
      BY <1>3, <1>5, FrameFits
  <2> HIDE DEF q, r
  <2>2. PageSize * q \in Nat
    BY <1>1, <1>2
  <2> QED
    BY <1>2, <2>1, <2>2
<1>7. Wrap(a + k) = a + k
  <2> HIDE DEF q, r
  <2> DEFINE w == a + k
  <2>1. w \in Nat /\ w < AddressSpace
    BY <1>1, <1>6
  <2> HIDE DEF w
  <2>2. w % AddressSpace = w
    BY <1>1, <2>1, SumsWrap
  <2> QED
    BY <2>2 DEF w, Wrap
<1>8. CASE q \in Fixed
  <2>1. Physical(a + k) = a + k /\ Physical(a) = a
    BY <1>4, <1>8 DEF Physical, Page
  <2> QED
    BY <1>1, <1>6, <1>7, <2>1
<1>9. CASE q \notin Fixed
  <2> DEFINE f == home[q]
  <2>1. f \in 0 .. N - 1
    BY <1>5 DEF MapOK
  <2>2. Physical(a + k) = f * PageSize + (r + k) /\ Physical(a) = f * PageSize + r
    BY <1>4, <1>9 DEF Physical, Page
  <2> HIDE DEF f, q, r
  <2>3. f * PageSize + (r + k) \in 0 .. AddressSpace - 1 /\ f * PageSize + r \in 0 .. AddressSpace - 1 /\ f * PageSize = PageSize * f
    BY <1>2, <1>3, <2>1, FrameFits
  <2>4. f * PageSize \in Nat
    BY <1>1, <2>1, <2>3
  <2> QED
    BY <1>1, <1>2, <1>6, <1>7, <2>2, <2>3, <2>4
<1> QED
  BY <1>8, <1>9

(* A register that went g bytes from x goes on.                             *)
LEMMA GoesOn ==
  ASSUME MapOK, NEW x \in Nat, NEW g \in Nat, NEW k \in Nat
  PROVE  /\ Wrap(x + g) \in 0 .. AddressSpace - 1
         /\ Wrap(Wrap(x + g) + k) = Wrap(x + (g + k))
         /\ k < Left(Wrap(x + g)) =>
              /\ Physical(Wrap(x + (g + k))) = Physical(Wrap(x + g)) + k
              /\ Physical(Wrap(x + g)) \in Nat /\ Physical(Wrap(x + g)) + k \in 0 .. AddressSpace - 1
<1> DEFINE y == x + g
<1>1. y \in Nat /\ y + k = x + (g + k) /\ y + k \in Nat
  OBVIOUS
<1> HIDE DEF y
<1>2. AddressSpace \in Nat \ {0} /\ Wrap(y) \in 0 .. AddressSpace - 1
  BY <1>1, SpaceFacts
<1>3. Wrap(Wrap(y) + k) = Wrap(y + k)
  BY <1>1, <1>2, SumsWrap DEF Wrap
<1>4. ASSUME k < Left(Wrap(y))
      PROVE  /\ Physical(Wrap(y + k)) = Physical(Wrap(y)) + k
             /\ Physical(Wrap(y)) \in Nat /\ Physical(Wrap(y)) + k \in 0 .. AddressSpace - 1
  <2> DEFINE a == Wrap(y)
  <2>1. a \in 0 .. AddressSpace - 1 /\ k < Left(a)
    BY <1>2, <1>4
  <2> HIDE DEF a
  <2>2. /\ Wrap(a + k) = a + k /\ Physical(a + k) = Physical(a) + k
        /\ Physical(a) \in Nat /\ Physical(a) + k \in 0 .. AddressSpace - 1
    BY <2>1, Window
  <2> QED
    BY <1>3, <2>2 DEF a
<1>5. /\ Wrap(y) \in 0 .. AddressSpace - 1
      /\ Wrap(Wrap(y) + k) = Wrap(x + (g + k))
      /\ k < Left(Wrap(y)) =>
           /\ Physical(Wrap(x + (g + k))) = Physical(Wrap(y)) + k
           /\ Physical(Wrap(y)) \in Nat /\ Physical(Wrap(y)) + k \in 0 .. AddressSpace - 1
  <2>1. Wrap(y + k) = Wrap(x + (g + k))
    BY <1>1
  <2> QED
    BY <1>2, <1>3, <1>4, <2>1
<1> QED
  BY <1>5 DEF y

-----------------------------------------------------------------------------
(* Memories                                                                 *)

(* One byte of a loop, its addresses given by two tables.                   *)
Reads(op) == op # "mset"
OneByte(m, k, to, from, op, value) == Stored(m, to[k], <<IF Reads(op) THEN ByteAt(m, from[k]) ELSE value>>)
Runs(f, n, m, to, from, op, value) ==
  f = [k \in 0 .. n |-> IF k = 0 THEN m ELSE OneByte(f[k - 1], k, to, from, op, value)]

LEMMA RunsFollow ==
  ASSUME NEW n \in Nat, NEW m, NEW to, NEW from, NEW op, NEW value, NEW f, Runs(f, n, m, to, from, op, value)
  PROVE  /\ f = [k \in 0 .. n |-> f[k]] /\ f[0] = m
         /\ \A k \in 0 .. n - 1 : f[k + 1] = OneByte(f[k], k + 1, to, from, op, value)
<1> DEFINE G(k) == IF k = 0 THEN m ELSE OneByte(f[k - 1], k, to, from, op, value)
<1>1. f = [k \in 0 .. n |-> G(k)]
  BY DEF Runs
<1> HIDE DEF G
<1>2. \A k \in 0 .. n : f[k] = G(k)
  BY <1>1
<1>3. f = [k \in 0 .. n |-> f[k]]
  BY <1>1
<1>4. f[0] = m
  BY <1>2 DEF G
<1>5. ASSUME NEW k \in 0 .. n - 1 PROVE f[k + 1] = OneByte(f[k], k + 1, to, from, op, value)
  <2>1. k + 1 \in 0 .. n /\ k + 1 # 0 /\ (k + 1) - 1 = k
    OBVIOUS
  <2> QED
    BY <1>2, <2>1 DEF G
<1> QED
  BY <1>3, <1>4, <1>5

LEMMA FollowRuns ==
  ASSUME NEW n \in Nat, NEW m, NEW to, NEW from, NEW op, NEW value,
         NEW f, f = [k \in 0 .. n |-> f[k]], f[0] = m,
         \A k \in 0 .. n - 1 : f[k + 1] = OneByte(f[k], k + 1, to, from, op, value)
  PROVE  Runs(f, n, m, to, from, op, value)
<1> DEFINE G(k) == IF k = 0 THEN m ELSE OneByte(f[k - 1], k, to, from, op, value)
<1>1. ASSUME NEW k \in 0 .. n PROVE f[k] = G(k)
  <2>1. CASE k = 0
    BY <2>1
  <2>2. CASE k # 0
    <3> DEFINE j == k - 1
    <3>1. j \in 0 .. n - 1 /\ j + 1 = k
      BY <2>2
    <3> HIDE DEF j
    <3>2. f[j + 1] = OneByte(f[j], j + 1, to, from, op, value)
      BY <3>1
    <3>3. f[k] = OneByte(f[j], k, to, from, op, value)
      BY <3>1, <3>2
    <3> QED
      BY <2>2, <3>3 DEF j
  <2> QED
    BY <2>1, <2>2
<1> HIDE DEF G
<1>2. f = [k \in 0 .. n |-> G(k)]
  BY <1>1
<1> QED
  BY <1>2 DEF Runs, G

(* There is one run of any length, and longer ones begin with it.           *)
LEMMA RunsExist ==
  ASSUME NEW n \in Nat, NEW m, NEW to, NEW from, NEW op, NEW value
  PROVE  \E f : Runs(f, n, m, to, from, op, value)
<1> DEFINE S == {k \in Nat : \E f : Runs(f, k, m, to, from, op, value)}
<1>1. 0 \in S
  <2> DEFINE f == [k \in 0 .. 0 |-> m]
  <2>1. f = [k \in 0 .. 0 |-> f[k]] /\ f[0] = m
    OBVIOUS
  <2> HIDE DEF f
  <2>2. Runs(f, 0, m, to, from, op, value)
    <3>1. \A k \in 0 .. 0 - 1 : f[k + 1] = OneByte(f[k], k + 1, to, from, op, value)
      OBVIOUS
    <3> QED
      BY <2>1, <3>1, FollowRuns
  <2> QED
    BY <2>2
<1>2. ASSUME NEW k \in Nat, k \in S PROVE k + 1 \in S
  <2>1. PICK f : Runs(f, k, m, to, from, op, value)
    BY <1>2
  <2>2. /\ f[0] = m
        /\ \A i \in 0 .. k - 1 : f[i + 1] = OneByte(f[i], i + 1, to, from, op, value)
    BY <2>1, RunsFollow
  <2> DEFINE g == [i \in 0 .. k + 1 |-> IF i = k + 1 THEN OneByte(f[k], k + 1, to, from, op, value) ELSE f[i]]
  <2>3. /\ g = [i \in 0 .. k + 1 |-> g[i]] /\ \A i \in 0 .. k : g[i] = f[i]
        /\ g[k + 1] = OneByte(f[k], k + 1, to, from, op, value)
    OBVIOUS
  <2> HIDE DEF g
  <2>8. 0 \in 0 .. k /\ k \in 0 .. k
    BY <1>2
  <2>4. g[0] = m
    BY <2>2, <2>3, <2>8
  <2>5. ASSUME NEW i \in 0 .. (k + 1) - 1 PROVE g[i + 1] = OneByte(g[i], i + 1, to, from, op, value)
    <3>1. CASE i = k
      <4>1. g[k] = f[k]
        BY <2>3, <2>8
      <4> QED
        BY <2>3, <3>1, <4>1
    <3>2. CASE i # k
      <4>1. i \in 0 .. k - 1 /\ i \in 0 .. k /\ i + 1 \in 0 .. k
        BY <3>2
      <4>2. g[i] = f[i] /\ g[i + 1] = f[i + 1]
        BY <2>3, <4>1
      <4> QED
        BY <2>2, <4>1, <4>2
    <3> QED
      BY <3>1, <3>2
  <2>6. k + 1 \in Nat
    OBVIOUS
  <2>7. Runs(g, k + 1, m, to, from, op, value)
    <3> DEFINE l == k + 1
    <3>1. /\ l \in Nat /\ g = [i \in 0 .. l |-> g[i]] /\ g[0] = m
          /\ \A i \in 0 .. l - 1 : g[i + 1] = OneByte(g[i], i + 1, to, from, op, value)
      BY <2>3, <2>4, <2>5, <2>6
    <3> HIDE DEF l
    <3>2. Runs(g, l, m, to, from, op, value)
      BY <3>1, FollowRuns
    <3> QED
      BY <3>2 DEF l
  <2> QED
    BY <2>6, <2>7
<1>3. 0 .. n \subseteq S
  <2> HIDE DEF S
  <2> QED
    BY <1>1, <1>2, UpTo
<1> QED
  BY <1>3

LEMMA RunsAgree ==
  ASSUME NEW n \in Nat, NEW o \in Nat, n <= o, NEW m, NEW to, NEW from, NEW op, NEW value,
         NEW f, Runs(f, n, m, to, from, op, value), NEW g, Runs(g, o, m, to, from, op, value)
  PROVE  f[n] = g[n]
<1> DEFINE S == {k \in 0 .. n : f[k] = g[k]}
<1>1. /\ f[0] = m /\ g[0] = m
      /\ \A k \in 0 .. n - 1 : f[k + 1] = OneByte(f[k], k + 1, to, from, op, value)
      /\ \A k \in 0 .. o - 1 : g[k + 1] = OneByte(g[k], k + 1, to, from, op, value)
  BY RunsFollow
<1>2. 0 \in S
  BY <1>1
<1>3. ASSUME NEW k \in 0 .. n - 1, k \in S PROVE k + 1 \in S
  <2>1. k \in 0 .. o - 1 /\ k + 1 \in 0 .. n /\ f[k] = g[k]
    BY <1>3
  <2> QED
    BY <1>1, <2>1
<1>4. 0 .. n \subseteq S
  <2> HIDE DEF S
  <2> QED
    BY <1>2, <1>3, UpTo
<1> QED
  BY <1>4

(* The loops of the model are runs.                                         *)
From(p) == [k \in Nat |-> p + k - 1]
LEMMA ByteLoopRuns ==
  ASSUME NEW n \in Nat, NEW m, NEW to \in Nat, NEW from \in Nat, NEW op, Reads(op), NEW value,
         NEW h, Runs(h, n, m, From(to), From(from), op, value)
  PROVE  ByteLoop(m, to, from, n) = h[n]
<1> DEFINE B(f, k) == IF k = 0 THEN m ELSE Stored(f[k - 1], to + k - 1, <<ByteAt(f[k - 1], from + k - 1)>>)
           Q(f, k) == IF k = 0 THEN m ELSE OneByte(f[k - 1], k, From(to), From(from), op, value)
           g == CHOOSE f : f = [k \in 0 .. n |-> B(f, k)]
<1>1. ByteLoop(m, to, from, n) = g[n]
  BY DEF ByteLoop
<1>2. ASSUME NEW f PROVE Runs(f, n, m, From(to), From(from), op, value) <=> f = [k \in 0 .. n |-> B(f, k)]
  <2>1. ASSUME NEW k \in 0 .. n PROVE B(f, k) = Q(f, k)
    <3>1. From(to)[k] = to + k - 1 /\ From(from)[k] = from + k - 1
      BY DEF From
    <3> QED
      BY <3>1 DEF OneByte, Reads
  <2> HIDE DEF B, Q
  <2>2. [k \in 0 .. n |-> B(f, k)] = [k \in 0 .. n |-> Q(f, k)]
    BY <2>1
  <2>3. Runs(f, n, m, From(to), From(from), op, value) <=> f = [k \in 0 .. n |-> Q(f, k)]
    BY DEF Runs, Q
  <2> QED
    BY <2>2, <2>3
<1>3. \E f : f = [k \in 0 .. n |-> B(f, k)]
  <2> HIDE DEF B
  <2>1. PICK f : Runs(f, n, m, From(to), From(from), op, value)
    BY RunsExist
  <2> QED
    BY <1>2, <2>1
<1>4. g = [k \in 0 .. n |-> B(g, k)]
  <2> HIDE DEF B
  <2> QED
    BY <1>3
<1> HIDE DEF g, B
<1>5. Runs(g, n, m, From(to), From(from), op, value)
  BY <1>2, <1>4
<1>6. g[n] = h[n]
  BY <1>5, RunsAgree
<1> QED
  BY <1>1, <1>6

Virtual(x) == [k \in Nat |-> Physical(Wrap(x + k - 1))]
LEMMA LoopToRuns ==
  ASSUME NEW n \in Nat, start.job.rd \in Nat, start.job.rs \in Nat
  PROVE  \E f : /\ Runs(f, n, start.bytes, Virtual(start.job.rd), Virtual(start.job.rs), job.op, start.job.rs)
                /\ LoopTo(n) = f[n]
<1> DEFINE to == start.job.rd
           from == start.job.rs
           op == job.op
           m == start.bytes
           B(f, k) == IF k = 0 THEN m ELSE Stored(f[k - 1], Physical(Wrap(to + k - 1)),
                                                  <<IF op = "mset" THEN from ELSE FromVirtual(f[k - 1], from + k - 1)>>)
           Q(f, k) == IF k = 0 THEN m ELSE OneByte(f[k - 1], k, Virtual(to), Virtual(from), op, from)
           g == CHOOSE f : f = [k \in 0 .. n |-> B(f, k)]
<1>1. LoopTo(n) = g[n]
  BY DEF LoopTo
<1>2. ASSUME NEW f PROVE Runs(f, n, m, Virtual(to), Virtual(from), op, from) <=> f = [k \in 0 .. n |-> B(f, k)]
  <2>1. ASSUME NEW k \in 0 .. n PROVE B(f, k) = Q(f, k)
    <3>1. Virtual(to)[k] = Physical(Wrap(to + k - 1)) /\ Virtual(from)[k] = Physical(Wrap(from + k - 1))
      BY DEF Virtual
    <3> QED
      BY <3>1 DEF OneByte, Reads, FromVirtual
  <2> HIDE DEF B, Q
  <2>2. [k \in 0 .. n |-> B(f, k)] = [k \in 0 .. n |-> Q(f, k)]
    BY <2>1
  <2>3. Runs(f, n, m, Virtual(to), Virtual(from), op, from) <=> f = [k \in 0 .. n |-> Q(f, k)]
    BY DEF Runs, Q
  <2> QED
    BY <2>2, <2>3
<1>3. \E f : f = [k \in 0 .. n |-> B(f, k)]
  <2> HIDE DEF B
  <2>1. PICK f : Runs(f, n, m, Virtual(to), Virtual(from), op, from)
    BY RunsExist
  <2> QED
    BY <1>2, <2>1
<1>4. g = [k \in 0 .. n |-> B(g, k)]
  <2> HIDE DEF B
  <2> QED
    BY <1>3
<1> HIDE DEF g, B
<1>5. Runs(g, n, m, Virtual(to), Virtual(from), op, from)
  BY <1>2, <1>4
<1> QED
  BY <1>1, <1>5

(* A run goes on where it was.                                              *)
Continues(rest, all, g, n) == \A k \in 0 .. n - 1 : rest[k + 1] = all[g + (k + 1)]
LEMMA RunsTail ==
  ASSUME NEW g \in Nat, NEW n \in Nat, NEW m, NEW to, NEW from, NEW op, NEW value,
         NEW f, Runs(f, g + n, m, to, from, op, value), NEW h, Runs(h, g, m, to, from, op, value),
         NEW to2, NEW from2, Continues(to2, to, g, n), Continues(from2, from, g, n)
  PROVE  \E f2 : Runs(f2, n, h[g], to2, from2, op, value) /\ f2[n] = f[g + n]
<1> DEFINE f2 == [k \in 0 .. n |-> f[g + k]]
           o == g + n
<1>1. o \in Nat /\ g <= o
  OBVIOUS
<1>2. Runs(f, o, m, to, from, op, value)
  OBVIOUS
<1> HIDE DEF o
<1>3. \A i \in 0 .. o - 1 : f[i + 1] = OneByte(f[i], i + 1, to, from, op, value)
  BY <1>1, <1>2, RunsFollow
<1>4. f[g] = h[g]
  BY <1>1, <1>2, RunsAgree
<1>5. /\ f2 = [k \in 0 .. n |-> f2[k]] /\ \A k \in 0 .. n : f2[k] = f[g + k]
  OBVIOUS
<1> HIDE DEF f2
<1>6. f2[0] = h[g] /\ f2[n] = f[g + n]
  BY <1>4, <1>5
<1>7. ASSUME NEW k \in 0 .. n - 1 PROVE f2[k + 1] = OneByte(f2[k], k + 1, to2, from2, op, value)
  <2> DEFINE i == g + k
  <2>1. i \in 0 .. o - 1 /\ i + 1 = g + (k + 1) /\ k \in 0 .. n /\ k + 1 \in 0 .. n
    BY DEF o
  <2>2. f2[k] = f[i] /\ f2[k + 1] = f[i + 1] /\ to2[k + 1] = to[i + 1] /\ from2[k + 1] = from[i + 1]
    BY <1>5, <2>1 DEF Continues
  <2> HIDE DEF i
  <2>3. f[i + 1] = OneByte(f[i], i + 1, to, from, op, value)
    BY <1>3, <2>1
  <2>4. OneByte(f[i], i + 1, to, from, op, value) = OneByte(f[i], k + 1, to2, from2, op, value)
    BY <2>2 DEF OneByte, Reads
  <2> QED
    BY <2>2, <2>3, <2>4
<1>8. Runs(f2, n, h[g], to2, from2, op, value)
  BY <1>5, <1>6, <1>7, FollowRuns
<1> QED
  BY <1>6, <1>8

(* Storing bytes one after the other is storing them.                       *)
More(e, d, k) == Len(d) = k /\ Len(e) = k + 1 /\ \A j \in 1 .. k : e[j] = d[j]
LEMMA StoredMore ==
  ASSUME NEW m, DOMAIN m \subseteq Nat, NEW p \in Nat, NEW k \in Nat, NEW d, NEW e, More(e, d, k)
  PROVE  Stored(Stored(m, p, d), p + k, <<e[k + 1]>>) = Stored(m, p, e)
<1> DEFINE one == Stored(m, p, d)
           b == <<e[k + 1]>>
           L(q) == IF Keeps(q) /\ q \in p + k .. (p + k) + Len(b) - 1 THEN b[q - (p + k) + 1] ELSE one[q]
           R(q) == IF Keeps(q) /\ q \in p .. p + Len(e) - 1 THEN e[q - p + 1] ELSE m[q]
<1>1. /\ DOMAIN one = DOMAIN m
      /\ \A q \in DOMAIN m : one[q] = IF Keeps(q) /\ q \in p .. p + Len(d) - 1 THEN d[q - p + 1] ELSE m[q]
  BY DEF Stored
<1>2. /\ Len(b) = 1 /\ b[1] = e[k + 1]
      /\ Len(d) = k /\ Len(e) = k + 1 /\ \A j \in 1 .. k : e[j] = d[j]
  BY DEF More
<1>3. Stored(one, p + k, b) = [q \in DOMAIN one |-> L(q)]
  BY DEF Stored
<1>4. Stored(m, p, e) = [q \in DOMAIN m |-> R(q)]
  BY DEF Stored
<1>5. ASSUME NEW q \in DOMAIN m PROVE L(q) = R(q)
  <2> HIDE DEF one, b
  <2>1. q \in Nat
    OBVIOUS
  <2>2. CASE ~Keeps(q)
    BY <1>1, <2>2
  <2>3. CASE Keeps(q) /\ q = p + k
    <3>1. q - (p + k) + 1 = 1 /\ q - p + 1 = k + 1 /\ q \in p + k .. (p + k) + 1 - 1 /\ q \in p .. p + (k + 1) - 1
      BY <2>3
    <3> QED
      BY <1>2, <2>3, <3>1
  <2>4. CASE Keeps(q) /\ q # p + k
    <3>1. q \notin p + k .. (p + k) + 1 - 1 /\ (q \in p .. p + (k + 1) - 1 <=> q \in p .. p + k - 1)
      BY <2>1, <2>4
    <3>2. q \in p .. p + k - 1 => q - p + 1 \in 1 .. k
      BY <2>1
    <3> QED
      BY <1>1, <1>2, <2>4, <3>1, <3>2
  <2> QED
    BY <2>2, <2>3, <2>4
<1> HIDE DEF L, R
<1> QED
  BY <1>1, <1>3, <1>4, <1>5

Backed(m) == m = [q \in {x \in 0 .. AddressSpace - 1 : Spans(x)} |-> m[q]]
LEMMA StoredFacts ==
  ASSUME MapOK, NEW m, Backed(m), NEW p, NEW d
  PROVE  /\ Backed(Stored(m, p, d)) /\ DOMAIN m = {x \in 0 .. AddressSpace - 1 : Spans(x)} /\ DOMAIN m \subseteq Nat
         /\ DOMAIN Stored(m, p, d) = DOMAIN m
         /\ \A q \in DOMAIN m : Stored(m, p, d)[q] = IF Keeps(q) /\ q \in p .. p + Len(d) - 1 THEN d[q - p + 1] ELSE m[q]
         /\ Len(d) = 0 /\ p \in Nat => Stored(m, p, d) = m
<1>1. DOMAIN m = {x \in 0 .. AddressSpace - 1 : Spans(x)} /\ DOMAIN m \subseteq Nat
  BY SpaceFacts DEF Backed
<1>2. /\ DOMAIN Stored(m, p, d) = DOMAIN m
      /\ Stored(m, p, d) = [q \in DOMAIN m |-> Stored(m, p, d)[q]]
      /\ \A q \in DOMAIN m : Stored(m, p, d)[q] = IF Keeps(q) /\ q \in p .. p + Len(d) - 1 THEN d[q - p + 1] ELSE m[q]
  BY DEF Stored
<1>3. ASSUME Len(d) = 0, p \in Nat PROVE Stored(m, p, d) = m
  <2>1. \A q \in DOMAIN m : Stored(m, p, d)[q] = m[q]
    BY <1>1, <1>2, <1>3
  <2>2. m = [q \in DOMAIN m |-> m[q]]
    BY <1>1 DEF Backed
  <2> QED
    BY <1>2, <2>1, <2>2
<1> QED
  BY <1>1, <1>2, <1>3 DEF Backed

(* A step that moves no page and leaves the gate keeps what a loop does.    *)
LEMMA SameLoop ==
  ASSUME home' = home, gate' = gate, start' = start, job'.op = job.op
  PROVE  LoopTo(Gone)' = LoopTo(Gone')
BY DEF LoopTo, Stored, Keeps, Kind, Page, Physical, Wrap, AddressSpace, SpaceOf, FromVirtual, ByteAt

LEMMA BytesFacts ==
  ASSUME NEW m, NEW p \in Nat, NEW n \in Nat
  PROVE  /\ Len(BytesAt(m, p, n)) = n
         /\ \A j \in 1 .. n : BytesAt(m, p, n)[j] = ByteAt(m, p + j - 1)
<1> DEFINE V(j) == ByteAt(m, p + j - 1)
<1>1. BytesAt(m, p, n) = [j \in 1 .. n |-> V(j)]
  BY DEF BytesAt
<1> HIDE DEF V
<1>2. Len([j \in 1 .. n |-> V(j)]) = n
  OBVIOUS
<1>3. \A j \in 1 .. n : [i \in 1 .. n |-> V(i)][j] = V(j)
  OBVIOUS
<1> QED
  BY <1>1, <1>2, <1>3 DEF V

(* Where the destination does not lie over what is read later, a loop of     *)
(* copies is one copy; and so it is for one byte over and over.             *)
Within(p, n) == \A k \in 0 .. n - 1 : p + k \in 0 .. AddressSpace - 1
Meets(to, from, n) == to > from /\ to < from + n
LEMMA CopyRuns ==
  ASSUME MapOK, NEW n \in Nat, NEW m, Backed(m), NEW to \in Nat, NEW from \in Nat,
         Within(from, n), ~Meets(to, from, n),
         NEW value, NEW op, Reads(op), NEW f, Runs(f, n, m, From(to), From(from), op, value)
  PROVE  f[n] = Stored(m, to, BytesAt(m, from, n))
<1> DEFINE S == {k \in 0 .. n : f[k] = Stored(m, to, BytesAt(m, from, k))}
<1>1. f[0] = m /\ \A k \in 0 .. n - 1 : f[k + 1] = OneByte(f[k], k + 1, From(to), From(from), op, value)
  BY RunsFollow
<1>2. 0 \in S
  <2>1. Len(BytesAt(m, from, 0)) = 0
    BY BytesFacts
  <2>2. Stored(m, to, BytesAt(m, from, 0)) = m
    BY <2>1, StoredFacts
  <2> QED
    BY <1>1, <2>2
<1>3. ASSUME NEW k \in 0 .. n - 1, k \in S PROVE k + 1 \in S
  <2> DEFINE d == BytesAt(m, from, k)
             e == BytesAt(m, from, k + 1)
  <2>1. k \in Nat /\ k + 1 \in Nat /\ f[k] = Stored(m, to, d)
    BY <1>3
  <2>2. Len(d) = k /\ Len(e) = k + 1 /\ \A j \in 1 .. k : d[j] = ByteAt(m, from + j - 1)
    BY <2>1, BytesFacts
  <2>3. \A j \in 1 .. k + 1 : e[j] = ByteAt(m, from + j - 1)
    BY <2>1, BytesFacts
  <2>4. \A j \in 1 .. k : e[j] = d[j]
    BY <2>1, <2>2, <2>3
  <2>5. e[k + 1] = ByteAt(m, from + k)
    <3>1. k + 1 \in 1 .. k + 1 /\ from + (k + 1) - 1 = from + k
      BY <2>1
    <3> QED
      BY <2>3, <3>1
  <2> HIDE DEF d, e
  <2>6. ByteAt(f[k], from + k) = ByteAt(m, from + k)
    <3> DEFINE q == from + k
    <3>1. q \in 0 .. AddressSpace - 1 /\ q \notin to .. to + k - 1
      BY <1>3 DEF Within, Meets
    <3> HIDE DEF q
    <3>2. /\ DOMAIN m = {x \in 0 .. AddressSpace - 1 : Spans(x)}
          /\ \A x \in DOMAIN m : Stored(m, to, d)[x] = IF Keeps(x) /\ x \in to .. to + Len(d) - 1 THEN d[x - to + 1] ELSE m[x]
      BY StoredFacts
    <3>3. Spans(q) => Stored(m, to, d)[q] = m[q]
      BY <2>2, <3>1, <3>2
    <3>4. ByteAt(f[k], q) = ByteAt(m, q)
      BY <2>1, <3>3 DEF ByteAt, Spans
    <3> QED
      BY <3>4 DEF q
  <2>7. f[k + 1] = Stored(f[k], to + k, <<ByteAt(f[k], from + k)>>)
    <3>1. From(to)[k + 1] = to + k /\ From(from)[k + 1] = from + k
      BY <2>1 DEF From
    <3> QED
      BY <1>1, <3>1 DEF OneByte, Reads
  <2>8. f[k + 1] = Stored(Stored(m, to, d), to + k, <<e[k + 1]>>)
    BY <2>1, <2>5, <2>6, <2>7
  <2>9. f[k + 1] = Stored(m, to, e)
    <3>1. DOMAIN m \subseteq Nat
      BY StoredFacts
    <3>2. More(e, d, k)
      BY <2>2, <2>4 DEF More
    <3> QED
      BY <2>1, <2>8, <3>1, <3>2, StoredMore
  <2> QED
    BY <2>1, <2>9 DEF e
<1>4. 0 .. n \subseteq S
  <2> HIDE DEF S
  <2> QED
    BY <1>2, <1>3, UpTo
<1> QED
  BY <1>4

Filled(n, value) == [j \in 1 .. n |-> value]
LEMMA SetRuns ==
  ASSUME MapOK, NEW n \in Nat, NEW m, Backed(m), NEW to \in Nat, NEW from, NEW op, ~Reads(op), NEW value,
         NEW f, Runs(f, n, m, From(to), from, op, value)
  PROVE  f[n] = Stored(m, to, Filled(n, value))
<1> DEFINE D(k) == [j \in 1 .. k |-> value]
           S == {k \in 0 .. n : f[k] = Stored(m, to, D(k))}
<1>1. f[0] = m /\ \A k \in 0 .. n - 1 : f[k + 1] = OneByte(f[k], k + 1, From(to), from, op, value)
  BY RunsFollow
<1>2. \A k \in Nat : Len(D(k)) = k /\ \A j \in 1 .. k : D(k)[j] = value
  OBVIOUS
<1> HIDE DEF D
<1>3. 0 \in S
  <2>1. Stored(m, to, D(0)) = m
    BY <1>2, StoredFacts
  <2> QED
    BY <1>1, <2>1
<1>4. ASSUME NEW k \in 0 .. n - 1, k \in S PROVE k + 1 \in S
  <2>1. k \in Nat /\ k + 1 \in Nat /\ f[k] = Stored(m, to, D(k)) /\ k + 1 \in 0 .. n
    BY <1>4
  <2>2. f[k + 1] = Stored(f[k], to + k, <<value>>)
    <3>1. From(to)[k + 1] = to + k
      BY <2>1 DEF From
    <3> QED
      BY <1>1, <3>1 DEF OneByte, Reads
  <2> DEFINE d == D(k)
             e == D(k + 1)
  <2>3. Len(d) = k /\ Len(e) = k + 1 /\ \A j \in 1 .. k : e[j] = d[j]
    BY <1>2, <2>1
  <2>4. e[k + 1] = value
    BY <1>2, <2>1
  <2> HIDE DEF d, e
  <2>5. DOMAIN m \subseteq Nat
    BY StoredFacts
  <2>6. Stored(Stored(m, to, d), to + k, <<e[k + 1]>>) = Stored(m, to, e)
    <3>1. More(e, d, k)
      BY <2>3 DEF More
    <3> QED
      BY <2>1, <2>5, <3>1, StoredMore
  <2> QED
    BY <2>1, <2>2, <2>4, <2>6 DEF d, e
<1>5. 0 .. n \subseteq S
  <2> HIDE DEF S
  <2> QED
    BY <1>3, <1>4, UpTo
<1> QED
  BY <1>5 DEF D, Filled

(* What the chunk of a copy does is a loop, whichever way it goes.          *)
LEMMA ChunkRuns ==
  ASSUME MapOK, NEW n \in Nat, NEW m, Backed(m), NEW to \in Nat, NEW from \in Nat,
         Within(from, n),
         NEW value, NEW op, Reads(op), NEW f, Runs(f, n, m, From(to), From(from), op, value)
  PROVE  f[n] = CopyChunk(m, to, from, n)
<1>1. CASE Spans(to) /\ Spans(from) /\ ~Meets(to, from, n)
  <2>1. f[n] = Stored(m, to, BytesAt(m, from, n))
    BY <1>1, CopyRuns
  <2> QED
    BY <1>1, <2>1 DEF CopyChunk, Meets
<1>2. CASE ~(Spans(to) /\ Spans(from) /\ ~Meets(to, from, n))
  <2>1. ByteLoop(m, to, from, n) = f[n]
    BY ByteLoopRuns
  <2> QED
    BY <1>2, <2>1 DEF CopyChunk, Meets
<1> QED
  BY <1>1, <1>2

(* A run stores to the bytes it goes over alone.                            *)
LEMMA RunsStay ==
  ASSUME MapOK, NEW n \in Nat, NEW m, Backed(m), NEW to \in Nat, NEW from, NEW op, NEW value,
         NEW f, Runs(f, n, m, From(to), from, op, value)
  PROVE  /\ Backed(f[n])
         /\ \A q \in DOMAIN m : f[n][q] # m[q] => Keeps(q) /\ q \in to .. to + n - 1
<1> DEFINE S == {k \in 0 .. n : /\ Backed(f[k])
                                /\ \A q \in DOMAIN m : f[k][q] # m[q] => Keeps(q) /\ q \in to .. to + n - 1}
<1>1. f[0] = m /\ \A k \in 0 .. n - 1 : f[k + 1] = OneByte(f[k], k + 1, From(to), from, op, value)
  BY RunsFollow
<1>2. 0 \in S
  BY <1>1
<1>3. ASSUME NEW k \in 0 .. n - 1, k \in S PROVE k + 1 \in S
  <2>1. PICK d : f[k + 1] = Stored(f[k], to + k, d) /\ Len(d) = 1
    <3>1. From(to)[k + 1] = to + k
      BY <1>3 DEF From
    <3> DEFINE d == <<IF op = "mset" THEN value ELSE ByteAt(f[k], from[k + 1])>>
    <3>2. f[k + 1] = Stored(f[k], to + k, d) /\ Len(d) = 1
      BY <1>1, <3>1 DEF OneByte, Reads
    <3> QED
      BY <3>2
  <2>2. Backed(f[k]) /\ \A q \in DOMAIN m : f[k][q] # m[q] => Keeps(q) /\ q \in to .. to + n - 1
    BY <1>3
  <2>3. /\ Backed(f[k + 1]) /\ DOMAIN f[k] = DOMAIN m
        /\ \A q \in DOMAIN f[k] : f[k + 1][q] = IF Keeps(q) /\ q \in to + k .. to + k + Len(d) - 1 THEN d[q - (to + k) + 1] ELSE f[k][q]
    <3> DEFINE p == to + k
               h == f[k]
    <3>1. Backed(h) /\ f[k + 1] = Stored(h, p, d) /\ DOMAIN m = {x \in 0 .. AddressSpace - 1 : Spans(x)}
      BY <2>1, <2>2, StoredFacts
    <3> HIDE DEF p, h
    <3>2. /\ Backed(Stored(h, p, d)) /\ DOMAIN h = DOMAIN m
          /\ \A q \in DOMAIN h : Stored(h, p, d)[q] = IF Keeps(q) /\ q \in p .. p + Len(d) - 1 THEN d[q - p + 1] ELSE h[q]
      BY <3>1, StoredFacts
    <3> QED
      BY <3>1, <3>2 DEF p, h
  <2>4. ASSUME NEW q \in DOMAIN m, f[k + 1][q] # m[q] PROVE Keeps(q) /\ q \in to .. to + n - 1
    <3>1. CASE Keeps(q) /\ q \in to + k .. to + k + Len(d) - 1
      BY <2>1, <3>1, <1>3
    <3>2. CASE ~(Keeps(q) /\ q \in to + k .. to + k + Len(d) - 1)
      BY <2>2, <2>3, <2>4, <3>2
    <3> QED
      BY <3>1, <3>2
  <2> QED
    BY <2>3, <2>4
<1>4. 0 .. n \subseteq S
  <2> HIDE DEF S
  <2> QED
    BY <1>2, <1>3, UpTo
<1> QED
  BY <1>4

LEMMA LeastOf ==
  ASSUME NEW S \in SUBSET Nat, S # {}
  PROVE  Min(S) \in S /\ \A m \in S : Min(S) <= m
<1>1. \E n \in S : \A m \in S : n <= m
  BY Least
<1> QED
  BY <1>1 DEF Min

LEMMA LeftFits ==
  ASSUME NEW a \in Nat
  PROVE  Left(a) \in Nat \ {0}
<1>1. a % PageSize \in 0 .. PageSize - 1 /\ PageSize \in Nat
  BY AccessAssumption, Division
<1> QED
  BY <1>1 DEF Left

(* A chunk is of one byte at least, and ends with its pages.                *)
LEMMA ChunkFits ==
  ASSUME job.rt \in Nat \ {0}, NEW a \in Nat, NEW b \in Nat
  PROVE  Chunk(a, b) \in 1 .. job.rt /\ Chunk(a, b) <= Left(a) /\ Chunk(a, b) <= Left(b)
<1> DEFINE S == {job.rt, PageSize, Left(a), Left(b)}
<1>1. PageSize \in Nat \ {0}
  BY AccessAssumption
<1>2. Left(a) \in Nat \ {0} /\ Left(b) \in Nat \ {0}
  BY LeftFits
<1>3. S \in SUBSET (Nat \ {0}) /\ S # {} /\ job.rt \in S /\ Left(a) \in S /\ Left(b) \in S
  BY <1>1, <1>2
<1>4. Chunk(a, b) = Min(S)
  BY DEF Chunk
<1> HIDE DEF S
<1>5. Min(S) \in S /\ \A m \in S : Min(S) <= m
  BY <1>3, LeastOf
<1>6. Min(S) \in Nat \ {0} /\ Min(S) <= job.rt /\ Min(S) <= Left(a) /\ Min(S) <= Left(b)
  BY <1>3, <1>5
<1> QED
  BY <1>4, <1>6

LEMMA ReachStops ==
  ASSUME NEW n \in Nat, NEW S \in SUBSET (0 .. n - 1)
  PROVE  /\ Reach(n, S) \in 0 .. n /\ (Reach(n, S) < n => Reach(n, S) \in S)
         /\ \A k \in 0 .. Reach(n, S) - 1 : k \notin S
<1> DEFINE T == S \cup {n}
<1>1. T \in SUBSET Nat /\ n \in T /\ T # {} /\ S \subseteq T
  OBVIOUS
<1>2. Reach(n, S) = Min(T)
  BY DEF Reach
<1> HIDE DEF T
<1>3. Min(T) \in T /\ \A m \in T : Min(T) <= m
  BY <1>1, LeastOf
<1>4. Min(T) \in Nat /\ Min(T) <= n /\ (Min(T) \in S \/ Min(T) = n)
  BY <1>1, <1>3 DEF T
<1>5. ASSUME NEW k \in 0 .. Min(T) - 1 PROVE k \notin S
  BY <1>1, <1>3, <1>4, <1>5
<1> QED
  BY <1>2, <1>4, <1>5

(* The loop over virtual addresses goes on by a chunk.                      *)
LEMMA CopyGoes ==
  ASSUME MapOK, start.job.rd \in Nat, start.job.rs \in Nat, job.op = "mcpy",
         NEW g \in Nat, NEW n \in Nat \ {0}, Backed(LoopTo(g)),
         NEW rd, rd = Wrap(start.job.rd + g), n <= Left(rd),
         NEW rs, rs = Wrap(start.job.rs + g), n <= Left(rs)
  PROVE  /\ LoopTo(g + n) = CopyChunk(LoopTo(g), Physical(rd), Physical(rs), n)
         /\ Backed(LoopTo(g + n))
         /\ \A q \in DOMAIN LoopTo(g) :
              LoopTo(g + n)[q] # LoopTo(g)[q] => Keeps(q) /\ q \in Physical(rd) .. Physical(rd) + n - 1
<1> DEFINE to == Virtual(start.job.rd)
           from == Virtual(start.job.rs)
           op == job.op
           v == start.job.rs
           m == start.bytes
           p == Physical(rd)
           s == Physical(rs)
           o == g + n
<1>1. PICK f : Runs(f, g + n, m, to, from, op, v) /\ LoopTo(g + n) = f[g + n]
  <2>1. o \in Nat
    OBVIOUS
  <2> HIDE DEF o
  <2>2. \E f : Runs(f, o, m, to, from, op, v) /\ LoopTo(o) = f[o]
    BY <2>1, LoopToRuns
  <2> QED
    BY <2>2 DEF o
<1>2. PICK h : Runs(h, g, m, to, from, op, v) /\ LoopTo(g) = h[g]
  BY LoopToRuns
<1>3. Left(rd) \in Nat /\ Left(rs) \in Nat
  <2>1. rd \in 0 .. AddressSpace - 1 /\ rs \in 0 .. AddressSpace - 1
    BY GoesOn
  <2>2. rd \in Nat /\ rs \in Nat
    BY <2>1, SpaceFacts
  <2> QED
    BY <2>2, LeftFits
<1>4. ASSUME NEW k \in 0 .. n - 1
      PROVE  /\ From(p)[k + 1] = to[g + (k + 1)] /\ From(s)[k + 1] = from[g + (k + 1)]
             /\ p \in Nat /\ s \in Nat /\ s + k \in 0 .. AddressSpace - 1
  <2>0. k \in Nat /\ k < Left(rd) /\ k < Left(rs)
    BY <1>3
  <2>1. /\ Physical(Wrap(start.job.rd + (g + k))) = p + k /\ Physical(Wrap(start.job.rs + (g + k))) = s + k
        /\ p \in Nat /\ s \in Nat /\ s + k \in 0 .. AddressSpace - 1
    BY <2>0, GoesOn
  <2>2. /\ g + (k + 1) \in Nat /\ k + 1 \in Nat /\ start.job.rd + (g + (k + 1)) - 1 = start.job.rd + (g + k)
        /\ start.job.rs + (g + (k + 1)) - 1 = start.job.rs + (g + k)
    OBVIOUS
  <2>3. to[g + (k + 1)] = p + k /\ from[g + (k + 1)] = s + k
    BY <2>1, <2>2 DEF Virtual
  <2>4. From(p)[k + 1] = p + k /\ From(s)[k + 1] = s + k
    <3> HIDE DEF p, s
    <3> QED
      BY <2>1, <2>2 DEF From
  <2> QED
    BY <2>1, <2>3, <2>4
<1> HIDE DEF to, from, m, p, s, v
<1>5. Reads(op)
  BY DEF Reads
<1>6. PICK f2 : Runs(f2, n, h[g], From(p), From(s), op, v) /\ f2[n] = f[g + n]
  <2> HIDE DEF op
  <2> DEFINE to2 == From(p)
             from2 == From(s)
  <2>1. Continues(to2, to, g, n) /\ Continues(from2, from, g, n) /\ n \in Nat
    BY <1>4 DEF Continues
  <2> HIDE DEF to2, from2
  <2>2. \E f2 : Runs(f2, n, h[g], to2, from2, op, v) /\ f2[n] = f[g + n]
    BY <1>1, <1>2, <2>1, RunsTail
  <2> QED
    BY <2>2 DEF to2, from2
<1>7. p \in Nat /\ s \in Nat /\ n \in Nat
  <2>1. 0 \in 0 .. n - 1
    OBVIOUS
  <2> QED
    BY <1>4, <2>1
<1>8. f2[n] = CopyChunk(h[g], p, s, n)
  <2>1. Backed(h[g]) /\ Runs(f2, n, h[g], From(p), From(s), op, v)
    BY <1>2, <1>5, <1>6
  <2>2. Within(s, n)
    BY <1>4 DEF Within
  <2> HIDE DEF op
  <2> QED
    BY <1>5, <1>7, <2>1, <2>2, ChunkRuns
<1>9. Backed(f2[n]) /\ \A q \in DOMAIN h[g] : f2[n][q] # h[g][q] => Keeps(q) /\ q \in p .. p + n - 1
  <2> HIDE DEF op
  <2> QED
    BY <1>2, <1>6, <1>7, RunsStay
<1> QED
  BY <1>1, <1>2, <1>6, <1>8, <1>9 DEF p, s

LEMMA SetGoes ==
  ASSUME MapOK, start.job.rd \in Nat, start.job.rs \in Nat, job.op = "mset",
         NEW g \in Nat, NEW n \in Nat \ {0}, Backed(LoopTo(g)),
         NEW rd, rd = Wrap(start.job.rd + g), n <= Left(rd)
  PROVE  /\ LoopTo(g + n) = Stored(LoopTo(g), Physical(rd), [j \in 1 .. n |-> start.job.rs])
         /\ Backed(LoopTo(g + n))
         /\ \A q \in DOMAIN LoopTo(g) :
              LoopTo(g + n)[q] # LoopTo(g)[q] => Keeps(q) /\ q \in Physical(rd) .. Physical(rd) + n - 1
<1> DEFINE to == Virtual(start.job.rd)
           from == Virtual(start.job.rs)
           from2 == [k \in Nat |-> from[g + k]]
           op == job.op
           v == start.job.rs
           m == start.bytes
           p == Physical(rd)
           o == g + n
<1>1. PICK f : Runs(f, g + n, m, to, from, op, v) /\ LoopTo(g + n) = f[g + n]
  <2>1. o \in Nat
    OBVIOUS
  <2> HIDE DEF o
  <2>2. \E f : Runs(f, o, m, to, from, op, v) /\ LoopTo(o) = f[o]
    BY <2>1, LoopToRuns
  <2> QED
    BY <2>2 DEF o
<1>2. PICK h : Runs(h, g, m, to, from, op, v) /\ LoopTo(g) = h[g]
  BY LoopToRuns
<1>3. Left(rd) \in Nat
  <2>1. rd \in 0 .. AddressSpace - 1
    BY GoesOn
  <2>2. rd \in Nat
    BY <2>1, SpaceFacts
  <2> QED
    BY <2>2, LeftFits
<1>4. ASSUME NEW k \in 0 .. n - 1 PROVE From(p)[k + 1] = to[g + (k + 1)] /\ p \in Nat
  <2>0. k \in Nat /\ k < Left(rd)
    BY <1>3
  <2>1. Physical(Wrap(start.job.rd + (g + k))) = p + k /\ p \in Nat
    BY <2>0, GoesOn
  <2>2. g + (k + 1) \in Nat /\ k + 1 \in Nat /\ start.job.rd + (g + (k + 1)) - 1 = start.job.rd + (g + k)
    OBVIOUS
  <2>3. to[g + (k + 1)] = p + k
    BY <2>1, <2>2 DEF Virtual
  <2>4. From(p)[k + 1] = p + k
    <3> HIDE DEF p
    <3> QED
      BY <2>1, <2>2 DEF From
  <2> QED
    BY <2>1, <2>3, <2>4
<1>5. Continues(from2, from, g, n)
  BY DEF Continues
<1> HIDE DEF to, from, from2, m, p, v
<1>6. ~Reads(op)
  BY DEF Reads
<1>7. PICK f2 : Runs(f2, n, h[g], From(p), from2, op, v) /\ f2[n] = f[g + n]
  <2> HIDE DEF op
  <2> DEFINE to2 == From(p)
  <2>1. Continues(to2, to, g, n) /\ n \in Nat
    BY <1>4 DEF Continues
  <2> HIDE DEF to2
  <2>2. \E f2 : Runs(f2, n, h[g], to2, from2, op, v) /\ f2[n] = f[g + n]
    BY <1>1, <1>2, <1>5, <2>1, RunsTail
  <2> QED
    BY <2>2 DEF to2
<1>8. p \in Nat /\ n \in Nat
  <2>1. 0 \in 0 .. n - 1
    OBVIOUS
  <2> QED
    BY <1>4, <2>1
<1>9. f2[n] = Stored(h[g], p, Filled(n, v))
  <2>1. Backed(h[g])
    BY <1>2
  <2> HIDE DEF op
  <2> QED
    BY <1>6, <1>7, <1>8, <2>1, SetRuns
<1>10. Backed(f2[n]) /\ \A q \in DOMAIN h[g] : f2[n][q] # h[g][q] => Keeps(q) /\ q \in p .. p + n - 1
  <2> HIDE DEF op
  <2> QED
    BY <1>2, <1>7, <1>8, RunsStay
<1> QED
  BY <1>1, <1>2, <1>7, <1>9, <1>10 DEF p, v, Filled

-----------------------------------------------------------------------------
(* The machine: what an instruction that was interrupted has to be told     *)
(* apart from the one that began.                                           *)
Fields == {"op", "at", "size", "signed", "value", "rd", "rs", "rt", "flags", "state"}
FlagsForm(fl) == fl = [x \in {"z", "c", "s", "v"} |-> fl[x]]
JobForm(j) == j = [x \in Fields |-> j[x]] /\ FlagsForm(j.flags)
JobGoes ==
  /\ JobForm(job) /\ job.op = start.job.op /\ job.at = start.job.at
  /\ start.job.rd \in Nat /\ start.job.rs \in Nat /\ start.job.rt \in Nat /\ job.rt \in 0 .. start.job.rt
  /\ job.op \in {"mcpy", "mset"} => job.flags = start.job.flags
  /\ job.op = "store" => job.value \in Seq(Nat) /\ job.size \in {1, 2, 4, 8} /\ Len(job.value) = job.size
MemoryInv == MapOK /\ JobGoes /\ Backed(bytes) /\ Backed(start.bytes) /\ BlockIsByteLoop /\ UnmarkedIsUntouched

(* What BlockIsByteLoop says, of a job, the bytes and how far it went.      *)
BlockDone(j, m, n) ==
  j.op \in BlockOps =>
    LET Stops(k) == IF j.op = "mcmp" THEN FromVirtual(m, start.job.rd + k) # FromVirtual(m, start.job.rs + k)
                    ELSE FromVirtual(m, start.job.rd + k) = j.rs
        left == FromVirtual(m, j.rd)
        right == FromVirtual(m, j.rs)
    IN /\ j.rd = Wrap(start.job.rd + n)
       /\ j.rs = IF j.op \in {"mcpy", "mcmp"} THEN Wrap(start.job.rs + n) ELSE start.job.rs
       /\ m = IF j.op \in {"mcpy", "mset"} THEN LoopTo(n) ELSE start.bytes
       /\ j.op \in {"mcmp", "mscan"} => \A k \in 0 .. n - 1 : ~Stops(k)
       /\ j.state = "done" =>
            CASE j.op \in {"mcpy", "mset"} -> j.rt = 0 /\ j.flags = start.job.flags
              [] j.op = "mscan" -> j.flags.z = (j.rt = 0) /\ (j.rt > 0 => Stops(n))
              [] j.op = "mcmp" -> /\ j.flags.z = (j.rt = 0) /\ (j.rt > 0 => Stops(n))
                                  /\ j.rt > 0 => j.flags.c = (left < right) /\ j.flags.s = (left < right)

LEMMA BlockNow ==
  BlockIsByteLoop <=> BlockDone(job, bytes, Gone)
BY DEF BlockIsByteLoop, BlockDone

LEMMA BlockNext ==
  ASSUME home' = home, gate' = gate, start' = start, job'.op = job.op, BlockDone(job', bytes', Gone')
  PROVE  BlockIsByteLoop'
<1>1. LoopTo(Gone)' = LoopTo(Gone')
  BY SameLoop
<1>2. \A m, a : FromVirtual(m, a)' = FromVirtual(m, a) /\ Wrap(a)' = Wrap(a)
  BY DEF FromVirtual, ByteAt, Kind, Page, Physical, Wrap, AddressSpace, SpaceOf
<1> QED
  BY <1>1, <1>2 DEF BlockIsByteLoop, BlockDone

LEMMA ChunkReads ==
  ASSUME MapOK, NEW x \in Nat, NEW g \in Nat, NEW k \in Nat, NEW m
  PROVE  /\ FromVirtual(m, Wrap(x + g)) = FromVirtual(m, x + g)
         /\ k < Left(Wrap(x + g)) => FromVirtual(m, x + (g + k)) = ByteAt(m, Physical(Wrap(x + g)) + k)
<1>1. /\ Wrap(x + g) \in 0 .. AddressSpace - 1
      /\ k < Left(Wrap(x + g)) => Physical(Wrap(x + (g + k))) = Physical(Wrap(x + g)) + k
  BY GoesOn
<1>2. Wrap(Wrap(x + g)) = Wrap(x + g)
  <2> DEFINE a == Wrap(x + g)
  <2>1. AddressSpace \in Nat \ {0} /\ a \in Nat /\ a < AddressSpace
    BY <1>1, SpaceFacts
  <2> HIDE DEF a
  <2>2. a % AddressSpace = a
    BY <2>1, SumsWrap
  <2> QED
    BY <2>2 DEF a, Wrap
<1> QED
  BY <1>1, <1>2 DEF FromVirtual

LEMMA MemoryBegins == AccessInit => MemoryInv
<1> SUFFICES ASSUME AccessInit PROVE MemoryInv
  OBVIOUS
<1>1. MapOK
  BY MapsAssumption DEF AccessInit, MapOK, N
<1>2. job \in [op : {"load", "store"} \cup BlockOps, at : Nat, size : {1, 2, 4, 8}, signed : BOOLEAN, value : Seq(Nat),
               rd : Nat, rs : Nat, rt : Nat, flags : [z : BOOLEAN, c : BOOLEAN, s : BOOLEAN, v : BOOLEAN], state : {"running"}]
  BY JobsAssumption DEF AccessInit
<1>3. /\ job.op = "store" => Len(job.value) = job.size
      /\ {job.at, job.rd} \cup (IF job.op \in {"mcpy", "mcmp"} THEN {job.rs} ELSE {}) \subseteq 0 .. AddressSpace - 1
  BY JobsAssumption DEF AccessInit, AddressSpace
<1>4. start.job = job /\ start.bytes = bytes /\ job.state = "running"
  BY <1>2 DEF AccessInit
<1>5. Backed(bytes) /\ Backed(start.bytes)
  <2>1. bytes = [p \in {q \in 0 .. AddressSpace - 1 : Spans(q)} |-> Contents[1 + p]]
    BY DEF AccessInit
  <2>2. Backed(bytes)
    BY <2>1 DEF Backed
  <2> QED
    BY <1>4, <2>2
<1>6. JobGoes
  <2>1. JobForm(job)
    BY <1>2 DEF JobForm, Fields, FlagsForm
  <2>2. job.rt \in 0 .. start.job.rt
    BY <1>2, <1>4
  <2> QED
    BY <1>2, <1>3, <1>4, <2>1, <2>2 DEF JobGoes
<1>7. BlockDone(job, bytes, Gone)
  <2>1. job.rd \in Nat /\ job.rs \in Nat /\ job.rt \in Nat
    BY <1>2
  <2>2. Gone = 0
    BY <1>4, <2>1 DEF Gone
  <2>3. LoopTo(0) = start.bytes
    <3>1. PICK f : /\ Runs(f, 0, start.bytes, Virtual(start.job.rd), Virtual(start.job.rs), job.op, start.job.rs)
                   /\ LoopTo(0) = f[0]
      BY <1>4, <2>1, LoopToRuns
    <3> QED
      BY <3>1, RunsFollow
  <2>4. ASSUME NEW x \in 0 .. AddressSpace - 1, x \in Nat PROVE Wrap(x + 0) = x
    <3>1. AddressSpace \in Nat \ {0} /\ x \in Nat /\ x < AddressSpace
      BY <1>1, <2>4, SpaceFacts
    <3>2. x % AddressSpace = x /\ x + 0 = x
      BY <3>1, SumsWrap
    <3> QED
      BY <3>2 DEF Wrap
  <2>5. job.rd = Wrap(start.job.rd + 0)
    BY <1>3, <1>4, <2>1, <2>4
  <2>6. job.rs = IF job.op \in {"mcpy", "mcmp"} THEN Wrap(start.job.rs + 0) ELSE start.job.rs
    BY <1>3, <1>4, <2>1, <2>4
  <2>7. 0 .. 0 - 1 = {}
    OBVIOUS
  <2> QED
    BY <1>4, <2>2, <2>3, <2>5, <2>6, <2>7 DEF BlockDone
<1>8. UnmarkedIsUntouched
  BY <1>4 DEF UnmarkedIsUntouched
<1> QED
  BY <1>1, <1>5, <1>6, <1>7, <1>8, BlockNow DEF MemoryInv

(* A step leaves the invariant that keeps to these.                         *)
LEMMA MemoryKept ==
  ASSUME MemoryInv, home' = home, gate' = gate, start' = start, JobGoes', job'.op = job.op,
         Backed(bytes'), BlockDone(job', bytes', Gone'), marks \subseteq marks',
         \A p \in DOMAIN bytes : Kind(p) = "vram" /\ bytes'[p] # bytes[p] => Page(p) \in marks'
  PROVE  MemoryInv'
<1>1. MapOK'
  BY DEF MemoryInv, MapOK, N
<1>2. \A m : Backed(m)' <=> Backed(m)
  BY DEF Backed, AddressSpace, SpaceOf
<1>3. Backed(bytes)' /\ Backed(start.bytes)'
  <2>1. Backed(bytes)' <=> Backed(bytes')
    BY <1>2
  <2>2. Backed(start.bytes)' <=> Backed(start.bytes)
    BY <1>2
  <2> QED
    BY <2>1, <2>2 DEF MemoryInv
<1>4. BlockIsByteLoop'
  BY BlockNext
<1>5. UnmarkedIsUntouched'
  <2>1. DOMAIN bytes' = DOMAIN bytes
    BY DEF MemoryInv, Backed
  <2> QED
    BY <2>1 DEF MemoryInv, UnmarkedIsUntouched
<1> QED
  BY <1>1, <1>3, <1>4, <1>5 DEF MemoryInv

LEMMA LoadKeeps ==
  ASSUME MemoryInv, Load PROVE MemoryInv'
<1>1. job.op = "load" /\ bytes' = bytes /\ marks' = marks /\ home' = home /\ gate' = gate /\ start' = start
  BY DEF Load
<1>2. PICK v, s : job' = [job EXCEPT !.value = v, !.state = s]
  <2>1. (\E x : job' = [[job EXCEPT !.value = x] EXCEPT !.state = "done"]) \/ \E s : job' = [job EXCEPT !.state = s]
    BY DEF Load, Finish, Raise
  <2>2. JobForm(job)
    BY DEF MemoryInv, JobGoes
  <2>3. ASSUME NEW s PROVE [job EXCEPT !.state = s] = [job EXCEPT !.value = job.value, !.state = s]
    BY <2>2 DEF JobForm, Fields
  <2>4. ASSUME NEW x PROVE [[job EXCEPT !.value = x] EXCEPT !.state = "done"] = [job EXCEPT !.value = x, !.state = "done"]
    BY <2>2 DEF JobForm, Fields
  <2> QED
    BY <2>1, <2>3, <2>4
<1>3. JobGoes' /\ job'.op = job.op
  <2>1. JobGoes
    BY DEF MemoryInv
  <2>2. JobForm(job') /\ job'.op = job.op /\ job'.at = job.at /\ job'.rd = job.rd /\ job'.rs = job.rs /\ job'.rt = job.rt
        /\ job'.flags = job.flags
    BY <1>2, <2>1 DEF JobGoes, JobForm, Fields
  <2>3. JobForm(job)'
    BY <2>2 DEF JobForm, Fields
  <2> QED
    BY <1>1, <2>1, <2>2, <2>3 DEF JobGoes
<1>4. BlockDone(job', bytes', Gone')
  BY <1>1, <1>3 DEF BlockDone, BlockOps
<1> QED
  BY <1>1, <1>3, <1>4, MemoryKept DEF MemoryInv

(* A half of a store changes what it marks.                                 *)
LEMMA HalfMarks ==
  ASSUME MapOK, NEW m, Backed(m), NEW p, NEW v \in Seq(Nat), NEW n \in Nat, NEW k \in {1, 2}, k * n <= Len(v)
  PROVE  LET d == SubSeq(v, (k - 1) * n + 1, k * n)
         IN /\ Backed(Stored(m, p, d))
            /\ \A q \in DOMAIN m : Kind(q) = "vram" /\ Stored(m, p, d)[q] # m[q] => Page(q) \in Marked(p, n)
<1> DEFINE d == SubSeq(v, (k - 1) * n + 1, k * n)
<1>1. Len(d) = n
  <2>1. CASE k = 1
    BY <2>1
  <2>2. CASE k = 2
    BY <2>2
  <2> QED
    BY <2>1, <2>2
<1> HIDE DEF d
<1>2. /\ Backed(Stored(m, p, d))
      /\ \A q \in DOMAIN m : Stored(m, p, d)[q] = IF Keeps(q) /\ q \in p .. p + Len(d) - 1 THEN d[q - p + 1] ELSE m[q]
  <2>1. Backed(Stored(m, p, d))
    BY StoredFacts
  <2>2. \A q \in DOMAIN m : Stored(m, p, d)[q] = IF Keeps(q) /\ q \in p .. p + Len(d) - 1 THEN d[q - p + 1] ELSE m[q]
    BY DEF Stored
  <2> QED
    BY <2>1, <2>2
<1>3. ASSUME NEW q \in DOMAIN m, Kind(q) = "vram", Stored(m, p, d)[q] # m[q] PROVE Page(q) \in Marked(p, n)
  <2>1. Keeps(q) /\ q \in p .. p + n - 1
    BY <1>1, <1>2, <1>3
  <2> QED
    BY <1>3, <2>1 DEF Marked
<1> QED
  BY <1>2, <1>3 DEF d

LEMMA StoreKeeps ==
  ASSUME MemoryInv, Store PROVE MemoryInv'
<1>1. job.op = "store" /\ home' = home /\ gate' = gate /\ start' = start
  BY DEF Store
<1>2. PICK s : job' = [job EXCEPT !.state = s]
  BY DEF Store, Finish, Raise
<1>3. JobGoes' /\ job'.op = job.op
  <2>1. JobGoes
    BY DEF MemoryInv
  <2>2. /\ JobForm(job') /\ job'.op = job.op /\ job'.at = job.at /\ job'.rd = job.rd /\ job'.rs = job.rs /\ job'.rt = job.rt
        /\ job'.flags = job.flags /\ job'.value = job.value /\ job'.size = job.size
    BY <1>2, <2>1 DEF JobGoes, JobForm, Fields
  <2>3. JobForm(job)'
    BY <2>2 DEF JobForm, Fields
  <2> QED
    BY <1>1, <2>1, <2>2, <2>3 DEF JobGoes
<1>4. BlockDone(job', bytes', Gone')
  BY <1>1, <1>3 DEF BlockDone, BlockOps
<1> DEFINE parts == Halves(job.at, job.size)
           n == Part(job.size)
           before == <<Aligning(job.at, "write", job.size), Storing(job.at, job.size)>>
           reached == IF FirstOf(before) = NoFault THEN Clear(parts, "write", n) ELSE 0
           D(k) == SubSeq(job.value, (k - 1) * n + 1, k * n)
           P(k) == Physical(parts[k])
           first == Stored(bytes, P(1), D(1))
<1>5. /\ bytes' = CASE reached = 0 -> bytes [] reached = 1 -> first [] reached = 2 -> Stored(first, P(2), D(2))
      /\ marks' = marks \cup UNION {Marked(P(k), n) : k \in 1 .. reached}
  BY DEF Store
<1>6. n \in Nat /\ job.value \in Seq(Nat) /\ 1 * n <= Len(job.value) /\ (Len(parts) = 2 => 2 * n <= Len(job.value))
  <2>1. job.value \in Seq(Nat) /\ job.size \in {1, 2, 4, 8} /\ Len(job.value) = job.size
    BY <1>1 DEF MemoryInv, JobGoes
  <2> QED
    BY <2>1 DEF Part, Halves
<1>7. reached \in {0, 1, 2} /\ (reached = 2 => Len(parts) = 2)
  <2>1. Len(parts) \in {1, 2}
    BY DEF Halves
  <2> HIDE DEF parts, n, before
  <2> QED
    BY <2>1 DEF Clear
<1> HIDE DEF parts, n, before, reached
<1>8. MapOK /\ Backed(bytes)
  BY DEF MemoryInv
<1>9. /\ Backed(first)
      /\ \A q \in DOMAIN bytes : Kind(q) = "vram" /\ first[q] # bytes[q] => Page(q) \in Marked(P(1), n)
  BY <1>6, <1>8, HalfMarks
<1>10. reached = 2 =>
         /\ Backed(Stored(first, P(2), D(2)))
         /\ \A q \in DOMAIN first : Kind(q) = "vram" /\ Stored(first, P(2), D(2))[q] # first[q] => Page(q) \in Marked(P(2), n)
  <2> HIDE DEF first
  <2> QED
    BY <1>6, <1>7, <1>8, <1>9, HalfMarks
<1>11. DOMAIN first = DOMAIN bytes
  BY <1>8, StoredFacts
<1> HIDE DEF first, P, D
<1>12. Backed(bytes') /\ marks \subseteq marks'
  BY <1>5, <1>7, <1>8, <1>9, <1>10
<1>13. ASSUME NEW p \in DOMAIN bytes, Kind(p) = "vram", bytes'[p] # bytes[p] PROVE Page(p) \in marks'
  <2>1. \A k \in 1 .. reached : Marked(P(k), n) \subseteq marks'
    BY <1>5
  <2>2. CASE reached = 0
    BY <1>5, <1>13, <2>2
  <2>3. CASE reached = 1
    BY <1>5, <1>9, <1>13, <2>1, <2>3
  <2>4. CASE reached = 2
    <3>1. Marked(P(1), n) \subseteq marks' /\ Marked(P(2), n) \subseteq marks'
      BY <2>1, <2>4
    <3>2. bytes' = Stored(first, P(2), D(2))
      BY <1>5, <2>4
    <3> QED
      BY <1>9, <1>10, <1>11, <1>13, <2>4, <3>1, <3>2
  <2> QED
    BY <1>7, <2>2, <2>3, <2>4
<1> QED
  BY <1>1, <1>3, <1>4, <1>12, <1>13, MemoryKept

(* Where a block instruction stands, and the chunk it goes next.            *)
LEMMA BlockStands ==
  ASSUME MemoryInv, job.op \in BlockOps
  PROVE  /\ Gone \in Nat /\ start.job.rd \in Nat /\ start.job.rs \in Nat /\ job.rt \in Nat /\ start.job.rt = Gone + job.rt
         /\ job.rd = Wrap(start.job.rd + Gone) /\ job.rd \in Nat /\ job.rs \in Nat
         /\ job.op \in {"mcpy", "mcmp"} => job.rs = Wrap(start.job.rs + Gone)
         /\ job.op \notin {"mcpy", "mcmp"} => job.rs = start.job.rs
         /\ BlockDone(job, bytes, Gone)
<1>1. BlockDone(job, bytes, Gone)
  BY BlockNow DEF MemoryInv
<1>2. /\ start.job.rd \in Nat /\ start.job.rs \in Nat /\ start.job.rt \in Nat /\ job.rt \in 0 .. start.job.rt
  BY DEF MemoryInv, JobGoes
<1>3. Gone \in Nat /\ job.rt \in Nat /\ start.job.rt = Gone + job.rt
  BY <1>2 DEF Gone
<1>4. job.rd = Wrap(start.job.rd + Gone) /\ job.rs = IF job.op \in {"mcpy", "mcmp"} THEN Wrap(start.job.rs + Gone) ELSE start.job.rs
  BY <1>1 DEF BlockDone
<1>5. \A a \in Nat : Wrap(a) \in Nat
  <2>1. AddressSpace \in Nat /\ \A a \in Nat : Wrap(a) \in 0 .. AddressSpace - 1
    BY SpaceFacts DEF MemoryInv
  <2> QED
    BY <2>1
<1>6. start.job.rd + Gone \in Nat /\ start.job.rs + Gone \in Nat
  BY <1>2, <1>3
<1>7. job.rd \in Nat /\ job.rs \in Nat
  BY <1>2, <1>4, <1>5, <1>6
<1> QED
  BY <1>1, <1>2, <1>3, <1>4, <1>7

LEMMA JobMoves ==
  ASSUME MemoryInv, start' = start, home' = home, job.op \in BlockOps, NEW n \in 0 .. job.rt, NEW s,
         NEW fl, FlagsForm(fl), job.op \in {"mcpy", "mset"} => fl = job.flags,
         job' = [[Advanced(job, n) EXCEPT !.flags = fl] EXCEPT !.state = s]
  PROVE  /\ JobGoes' /\ job'.op = job.op /\ job'.rt = job.rt - n /\ Gone' = Gone + n /\ job'.flags = fl /\ job'.state = s
         /\ job'.rd = Wrap(start.job.rd + (Gone + n))
         /\ job'.rs = IF job.op \in {"mcpy", "mcmp"} THEN Wrap(start.job.rs + (Gone + n)) ELSE start.job.rs
<1>1. JobGoes /\ JobForm(job)
  BY DEF MemoryInv, JobGoes
<1> DEFINE rs == IF job.op \in {"mcpy", "mcmp"} THEN Wrap(job.rs + n) ELSE job.rs
           rd2 == Wrap(job.rd + n)
           rt2 == job.rt - n
<1>3. job' = [[[job EXCEPT !.rd = rd2, !.rs = rs, !.rt = rt2] EXCEPT !.flags = fl] EXCEPT !.state = s]
  <2>1. Advanced(job, n) = [job EXCEPT !.rd = rd2, !.rs = rs, !.rt = rt2]
    BY <1>1 DEF Advanced, JobForm, Fields
  <2> HIDE DEF rd2, rt2, rs
  <2> QED
    BY <2>1
<1> HIDE DEF rd2, rt2, rs
<1>4. /\ JobForm(job') /\ job'.op = job.op /\ job'.at = job.at /\ job'.rd = rd2 /\ job'.rs = rs /\ job'.rt = rt2
      /\ job'.flags = fl /\ job'.state = s /\ job'.value = job.value /\ job'.size = job.size
  BY <1>1, <1>3 DEF JobForm, Fields
<1>5. /\ Gone \in Nat /\ start.job.rd \in Nat /\ start.job.rs \in Nat /\ job.rt \in Nat /\ start.job.rt = Gone + job.rt
      /\ job.rd = Wrap(start.job.rd + Gone)
      /\ job.op \in {"mcpy", "mcmp"} => job.rs = Wrap(start.job.rs + Gone)
      /\ job.op \notin {"mcpy", "mcmp"} => job.rs = start.job.rs
  BY BlockStands
<1>6. rt2 \in 0 .. start.job.rt /\ start.job.rt - rt2 = Gone + n /\ n \in Nat
  BY <1>5 DEF rt2
<1>7. Gone' = Gone + n
  BY <1>4, <1>6 DEF Gone
<1>8. JobGoes'
  <2>1. JobForm(job)'
    BY <1>4 DEF JobForm
  <2> QED
    BY <1>1, <1>4, <1>6, <2>1 DEF JobGoes
<1>9. Wrap(Wrap(start.job.rd + Gone) + n) = Wrap(start.job.rd + (Gone + n)) /\ Wrap(Wrap(start.job.rs + Gone) + n) = Wrap(start.job.rs + (Gone + n))
  BY <1>5, <1>6, GoesOn DEF MemoryInv
<1>10. rd2 = Wrap(start.job.rd + (Gone + n))
  BY <1>5, <1>9 DEF rd2
<1>11. rs = IF job.op \in {"mcpy", "mcmp"} THEN Wrap(start.job.rs + (Gone + n)) ELSE start.job.rs
  BY <1>5, <1>9 DEF rs
<1> QED
  BY <1>4, <1>7, <1>8, <1>10, <1>11 DEF rt2

(* A fault, its repair and whatever the kernel does between two chunks.     *)
LEMMA WaitKeeps ==
  ASSUME MemoryInv, NEW s \in {"faulted", "stopped", "running"}, job' = [job EXCEPT !.state = s],
         bytes' = bytes, home' = home, gate' = gate, start' = start, marks' = marks
  PROVE  MemoryInv'
<1>1. JobGoes
  BY DEF MemoryInv
<1>2. /\ JobForm(job') /\ job'.op = job.op /\ job'.at = job.at /\ job'.rd = job.rd /\ job'.rs = job.rs /\ job'.rt = job.rt
      /\ job'.flags = job.flags /\ job'.value = job.value /\ job'.size = job.size /\ job'.state = s
  BY <1>1 DEF JobGoes, JobForm, Fields
<1>3. JobGoes'
  <2>1. JobForm(job)'
    BY <1>2 DEF JobForm, Fields, FlagsForm
  <2> QED
    BY <1>1, <1>2, <2>1 DEF JobGoes
<1>4. Gone' = Gone
  BY <1>2 DEF Gone
<1>5. BlockDone(job', bytes', Gone')
  <2>1. BlockDone(job, bytes, Gone)
    BY BlockNow DEF MemoryInv
  <2>2. s # "done"
    OBVIOUS
  <2> QED
    BY <1>2, <1>4, <2>1, <2>2 DEF BlockDone
<1> QED
  BY <1>2, <1>3, <1>5, MemoryKept DEF MemoryInv

(* The end of a chunk, and the end of the block.                            *)
LEMMA Proceeds ==
  ASSUME JobForm(job), job.state = "running", NEW n, NEW fl, Proceed([Advanced(job, n) EXCEPT !.flags = fl])
  PROVE  \E s \in {"done", "running"} :
           /\ job' = [[Advanced(job, n) EXCEPT !.flags = fl] EXCEPT !.state = s]
           /\ s = "done" => job.rt - n = 0
           /\ s = "running" => job.rt - n # 0
<1> DEFINE rs == IF job.op \in {"mcpy", "mcmp"} THEN Wrap(job.rs + n) ELSE job.rs
           rd == Wrap(job.rd + n)
           rt == job.rt - n
           j == [Advanced(job, n) EXCEPT !.flags = fl]
           a == [job EXCEPT !.rd = rd, !.rs = rs, !.rt = rt]
<1>1. Advanced(job, n) = a
  BY DEF Advanced, JobForm, Fields
<1>2. PICK k : k = a
  OBVIOUS
<1> HIDE DEF rd, rs, rt, a
<1>3. j.rt = rt /\ j = [j EXCEPT !.state = "running"]
  <2>1. j = [a EXCEPT !.flags = fl]
    BY <1>1
  <2> HIDE DEF j
  <2>2. a = [x \in Fields |-> a[x]] /\ a.state = "running" /\ a.rt = rt
    BY DEF JobForm, Fields, a
  <2>3. j = [x \in Fields |-> j[x]] /\ j.state = "running" /\ j.rt = rt
    BY <2>1, <2>2 DEF Fields
  <2>4. PICK i : i = [j EXCEPT !.state = "running"]
    OBVIOUS
  <2>5. i = [x \in Fields |-> i[x]] /\ \A x \in Fields : i[x] = j[x]
    BY <2>3, <2>4 DEF Fields
  <2>6. i = j
    BY <2>3, <2>5
  <2> QED
    BY <2>3, <2>4, <2>6
<1>4. CASE rt = 0
  <2>1. job' = [j EXCEPT !.state = "done"]
    BY <1>3, <1>4 DEF Proceed, Finish
  <2> QED
    BY <1>4, <2>1 DEF rt
<1>5. CASE rt # 0
  <2>1. job' = [j EXCEPT !.state = "running"]
    BY <1>3, <1>5 DEF Proceed
  <2> QED
    BY <1>5, <2>1 DEF rt
<1> QED
  BY <1>4, <1>5

LEMMA FlagsStay ==
  ASSUME JobForm(job), NEW n
  PROVE  Advanced(job, n) = [Advanced(job, n) EXCEPT !.flags = job.flags] /\ Advanced(job, n).flags = job.flags
<1> DEFINE rs == IF job.op \in {"mcpy", "mcmp"} THEN Wrap(job.rs + n) ELSE job.rs
           rd == Wrap(job.rd + n)
           rt == job.rt - n
           a == [job EXCEPT !.rd = rd, !.rs = rs, !.rt = rt]
<1>1. Advanced(job, n) = a
  BY DEF Advanced, JobForm, Fields
<1> HIDE DEF rd, rs, rt
<1>2. a = [x \in Fields |-> a[x]] /\ a.flags = job.flags
  BY DEF JobForm, Fields
<1> HIDE DEF a
<1>3. PICK i : i = [a EXCEPT !.flags = job.flags]
  OBVIOUS
<1>4. i = [x \in Fields |-> i[x]] /\ \A x \in Fields : i[x] = a[x]
  BY <1>2, <1>3 DEF Fields
<1>5. i = a
  BY <1>2, <1>4
<1> QED
  BY <1>1, <1>2, <1>3, <1>5

LEMMA RaiseKeeps ==
  ASSUME MemoryInv, NEW why, Raise(why) \/ job' = [job EXCEPT !.state = IF why.vector = "PageFault" THEN "faulted" ELSE "stopped"],
         bytes' = bytes, home' = home, gate' = gate, start' = start, marks' = marks
  PROVE  MemoryInv'
<1>1. PICK s \in {"faulted", "stopped", "running"} : job' = [job EXCEPT !.state = s]
  BY DEF Raise
<1> QED
  BY <1>1, WaitKeeps

LEMMA CopyKeeps ==
  ASSUME MemoryInv, CopyBlock PROVE MemoryInv'
<1> DEFINE n == Chunk(job.rd, job.rs)
           p == Physical(job.rd)
           s == Physical(job.rs)
<1>1. job.op = "mcpy" /\ job.op \in BlockOps /\ job.state = "running" /\ home' = home /\ gate' = gate /\ start' = start
  BY DEF CopyBlock, BlockOps
<1>2. \/ \E why : Raise(why) /\ bytes' = bytes /\ marks' = marks
      \/ /\ bytes' = CopyChunk(bytes, p, s, n)
         /\ marks' = marks \cup Marked(p, n)
         /\ Proceed(Advanced(job, n))
  BY DEF CopyBlock
<1>3. ASSUME NEW why, Raise(why) /\ bytes' = bytes /\ marks' = marks PROVE MemoryInv'
  BY <1>1, <1>3, RaiseKeeps
<1>4. ASSUME bytes' = CopyChunk(bytes, p, s, n), marks' = marks \cup Marked(p, n), Proceed(Advanced(job, n))
      PROVE  MemoryInv'
  <2>1. /\ Gone \in Nat /\ start.job.rd \in Nat /\ start.job.rs \in Nat /\ job.rt \in Nat
        /\ job.rd = Wrap(start.job.rd + Gone) /\ job.rd \in Nat /\ job.rs \in Nat
        /\ job.rs = Wrap(start.job.rs + Gone)
        /\ BlockDone(job, bytes, Gone)
    BY <1>1, BlockStands
  <2>2. n \in 1 .. job.rt /\ n <= Left(job.rd) /\ n <= Left(job.rs)
    <3>1. job.rt \in Nat \ {0}
      BY <2>1 DEF CopyBlock
    <3> QED
      BY <2>1, <3>1, ChunkFits
  <2> HIDE DEF n
  <2>3. bytes = LoopTo(Gone)
    BY <1>1, <2>1 DEF BlockDone
  <2>4. MapOK /\ Backed(bytes) /\ JobForm(job) /\ FlagsForm(job.flags) /\ job.flags = start.job.flags
    BY <1>1 DEF MemoryInv, JobGoes, JobForm
  <2>5. /\ LoopTo(Gone + n) = CopyChunk(LoopTo(Gone), Physical(job.rd), Physical(job.rs), n)
        /\ Backed(LoopTo(Gone + n))
        /\ \A q \in DOMAIN LoopTo(Gone) :
              LoopTo(Gone + n)[q] # LoopTo(Gone)[q] => Keeps(q) /\ q \in Physical(job.rd) .. Physical(job.rd) + n - 1
    <3> DEFINE g == Gone
    <3>1. /\ g \in Nat /\ n \in Nat \ {0} /\ Backed(LoopTo(g))
          /\ job.rd = Wrap(start.job.rd + g) /\ job.rs = Wrap(start.job.rs + g)
      BY <2>1, <2>2, <2>3, <2>4
    <3> HIDE DEF g
    <3>2. /\ LoopTo(g + n) = CopyChunk(LoopTo(g), Physical(job.rd), Physical(job.rs), n)
          /\ Backed(LoopTo(g + n))
          /\ \A q \in DOMAIN LoopTo(g) :
               LoopTo(g + n)[q] # LoopTo(g)[q] => Keeps(q) /\ q \in Physical(job.rd) .. Physical(job.rd) + n - 1
      BY <1>1, <2>1, <2>2, <2>4, <3>1, CopyGoes
    <3> QED
      BY <3>2 DEF g
  <2>6. bytes' = LoopTo(Gone + n) /\ Backed(bytes')
    BY <1>4, <2>3, <2>5
  <2>7. PICK t \in {"done", "running"} :
           /\ job' = [[Advanced(job, n) EXCEPT !.flags = job.flags] EXCEPT !.state = t]
           /\ t = "done" => job.rt - n = 0
    <3>1. Proceed([Advanced(job, n) EXCEPT !.flags = job.flags])
      BY <1>4, <2>4, FlagsStay
    <3> QED
      BY <1>1, <2>4, <3>1, Proceeds
  <2>8. /\ JobGoes' /\ job'.op = job.op /\ job'.rt = job.rt - n /\ Gone' = Gone + n /\ job'.flags = job.flags /\ job'.state = t
        /\ job'.rd = Wrap(start.job.rd + (Gone + n))
        /\ job'.rs = IF job.op \in {"mcpy", "mcmp"} THEN Wrap(start.job.rs + (Gone + n)) ELSE start.job.rs
    <3>1. n \in 0 .. job.rt
      BY <2>1, <2>2
    <3> QED
      BY <1>1, <2>4, <2>7, <3>1, JobMoves
  <2>9. BlockDone(job', bytes', Gone')
    BY <1>1, <2>4, <2>6, <2>7, <2>8 DEF BlockDone
  <2>10. ASSUME NEW q \in DOMAIN bytes, Kind(q) = "vram", bytes'[q] # bytes[q] PROVE Page(q) \in marks'
    <3>1. Keeps(q) /\ q \in p .. p + n - 1
      BY <2>3, <2>5, <2>6, <2>10
    <3>2. Page(q) \in Marked(p, n)
      BY <2>10, <3>1 DEF Marked
    <3> QED
      BY <1>4, <3>2
  <2> QED
    BY <1>1, <1>4, <2>6, <2>8, <2>9, <2>10, MemoryKept
<1> QED
  BY <1>2, <1>3, <1>4

LEMMA SetKeeps ==
  ASSUME MemoryInv, SetBlock PROVE MemoryInv'
<1> DEFINE n == Chunk(job.rd, job.rd)
           p == Physical(job.rd)
<1>1. job.op = "mset" /\ job.op \in BlockOps /\ job.state = "running" /\ home' = home /\ gate' = gate /\ start' = start
  BY DEF SetBlock, BlockOps
<1>2. \/ \E why : Raise(why) /\ bytes' = bytes /\ marks' = marks
      \/ /\ bytes' = Stored(bytes, p, [k \in 1 .. n |-> job.rs])
         /\ marks' = marks \cup Marked(p, n)
         /\ Proceed(Advanced(job, n))
  BY DEF SetBlock
<1>3. ASSUME NEW why, Raise(why) /\ bytes' = bytes /\ marks' = marks PROVE MemoryInv'
  BY <1>1, <1>3, RaiseKeeps
<1>4. ASSUME bytes' = Stored(bytes, p, [k \in 1 .. n |-> job.rs]), marks' = marks \cup Marked(p, n), Proceed(Advanced(job, n))
      PROVE  MemoryInv'
  <2>1. /\ Gone \in Nat /\ start.job.rd \in Nat /\ start.job.rs \in Nat /\ job.rt \in Nat
        /\ job.rd = Wrap(start.job.rd + Gone) /\ job.rd \in Nat
        /\ job.rs = start.job.rs
        /\ BlockDone(job, bytes, Gone)
    BY <1>1, BlockStands
  <2>2. n \in 1 .. job.rt /\ n <= Left(job.rd)
    <3>1. job.rt \in Nat \ {0}
      BY <2>1 DEF SetBlock
    <3> QED
      BY <2>1, <3>1, ChunkFits
  <2> HIDE DEF n
  <2>3. bytes = LoopTo(Gone)
    BY <1>1, <2>1 DEF BlockDone
  <2>4. MapOK /\ Backed(bytes) /\ JobForm(job) /\ FlagsForm(job.flags) /\ job.flags = start.job.flags
    BY <1>1 DEF MemoryInv, JobGoes, JobForm
  <2>5. /\ LoopTo(Gone + n) = Stored(LoopTo(Gone), Physical(job.rd), [j \in 1 .. n |-> start.job.rs])
        /\ Backed(LoopTo(Gone + n))
        /\ \A q \in DOMAIN LoopTo(Gone) :
              LoopTo(Gone + n)[q] # LoopTo(Gone)[q] => Keeps(q) /\ q \in Physical(job.rd) .. Physical(job.rd) + n - 1
    <3> DEFINE g == Gone
    <3>1. g \in Nat /\ n \in Nat \ {0} /\ Backed(LoopTo(g)) /\ job.rd = Wrap(start.job.rd + g)
      BY <2>1, <2>2, <2>3, <2>4
    <3> HIDE DEF g
    <3>2. /\ LoopTo(g + n) = Stored(LoopTo(g), Physical(job.rd), [j \in 1 .. n |-> start.job.rs])
          /\ Backed(LoopTo(g + n))
          /\ \A q \in DOMAIN LoopTo(g) :
               LoopTo(g + n)[q] # LoopTo(g)[q] => Keeps(q) /\ q \in Physical(job.rd) .. Physical(job.rd) + n - 1
      BY <1>1, <2>1, <2>2, <2>4, <3>1, SetGoes
    <3> QED
      BY <3>2 DEF g
  <2>6. bytes' = LoopTo(Gone + n) /\ Backed(bytes')
    BY <1>4, <2>1, <2>3, <2>5
  <2>7. PICK t \in {"done", "running"} :
           /\ job' = [[Advanced(job, n) EXCEPT !.flags = job.flags] EXCEPT !.state = t]
           /\ t = "done" => job.rt - n = 0
    <3>1. Proceed([Advanced(job, n) EXCEPT !.flags = job.flags])
      BY <1>4, <2>4, FlagsStay
    <3> QED
      BY <1>1, <2>4, <3>1, Proceeds
  <2>8. /\ JobGoes' /\ job'.op = job.op /\ job'.rt = job.rt - n /\ Gone' = Gone + n /\ job'.flags = job.flags /\ job'.state = t
        /\ job'.rd = Wrap(start.job.rd + (Gone + n))
        /\ job'.rs = IF job.op \in {"mcpy", "mcmp"} THEN Wrap(start.job.rs + (Gone + n)) ELSE start.job.rs
    <3>1. n \in 0 .. job.rt
      BY <2>1, <2>2
    <3> QED
      BY <1>1, <2>4, <2>7, <3>1, JobMoves
  <2>9. BlockDone(job', bytes', Gone')
    BY <1>1, <2>4, <2>6, <2>7, <2>8 DEF BlockDone
  <2>10. ASSUME NEW q \in DOMAIN bytes, Kind(q) = "vram", bytes'[q] # bytes[q] PROVE Page(q) \in marks'
    <3>1. Keeps(q) /\ q \in p .. p + n - 1
      BY <2>3, <2>5, <2>6, <2>10
    <3>2. Page(q) \in Marked(p, n)
      BY <2>10, <3>1 DEF Marked
    <3> QED
      BY <1>4, <3>2
  <2> QED
    BY <1>1, <1>4, <2>6, <2>8, <2>9, <2>10, MemoryKept
<1> QED
  BY <1>2, <1>3, <1>4

(* Memory is read alone by the other two; what they went over was so for     *)
(* every byte, and where they stopped it was not.                           *)
LEMMA LookKeeps ==
  ASSUME MemoryInv, job.op \in {"mcmp", "mscan"}, bytes' = bytes, home' = home, gate' = gate, start' = start, marks' = marks,
         NEW n \in 0 .. job.rt, NEW s, NEW fl, FlagsForm(fl),
         job' = [[Advanced(job, n) EXCEPT !.flags = fl] EXCEPT !.state = s],
         n > 0 => n <= Left(job.rd) /\ (job.op = "mcmp" => n <= Left(job.rs)),
         \A k \in 0 .. n - 1 :
           IF job.op = "mcmp" THEN ByteAt(bytes, Physical(job.rd) + k) = ByteAt(bytes, Physical(job.rs) + k)
           ELSE ByteAt(bytes, Physical(job.rd) + k) # job.rs,
         s = "done" => IF job.rt - n = 0 THEN fl.z = TRUE ELSE fl.z = FALSE,
         s = "done" /\ job.rt - n > 0 =>
           LET x == FromVirtual(bytes, start.job.rd + (Gone + n))
               y == IF job.op = "mcmp" THEN FromVirtual(bytes, start.job.rs + (Gone + n)) ELSE job.rs
           IN IF job.op = "mcmp" THEN x # y /\ fl.c = (x < y) /\ fl.s = (x < y) ELSE x = y
  PROVE  MemoryInv'
<1>1. /\ Gone \in Nat /\ start.job.rd \in Nat /\ start.job.rs \in Nat /\ job.rt \in Nat
      /\ job.rd = Wrap(start.job.rd + Gone) /\ job.rd \in Nat /\ job.rs \in Nat
      /\ job.op = "mcmp" => job.rs = Wrap(start.job.rs + Gone)
      /\ job.op = "mscan" => job.rs = start.job.rs
      /\ BlockDone(job, bytes, Gone)
  BY BlockStands DEF BlockOps
<1>2. /\ JobGoes' /\ job'.op = job.op /\ job'.rt = job.rt - n /\ Gone' = Gone + n /\ job'.flags = fl /\ job'.state = s
      /\ job'.rd = Wrap(start.job.rd + (Gone + n))
      /\ job'.rs = IF job.op \in {"mcpy", "mcmp"} THEN Wrap(start.job.rs + (Gone + n)) ELSE start.job.rs
  BY JobMoves DEF BlockOps
<1> DEFINE Stops(k) == IF job.op = "mcmp" THEN FromVirtual(bytes, start.job.rd + k) # FromVirtual(bytes, start.job.rs + k)
                       ELSE FromVirtual(bytes, start.job.rd + k) = job.rs
<1>3. bytes = start.bytes /\ \A k \in 0 .. Gone - 1 : ~Stops(k)
  BY <1>1 DEF BlockDone, BlockOps
<1>4. ASSUME NEW k \in 0 .. n - 1 PROVE ~Stops(Gone + k)
  <2>1. k \in Nat /\ k < Left(job.rd) /\ (job.op = "mcmp" => k < Left(job.rs))
    BY <1>1, LeftFits
  <2>2. FromVirtual(bytes, start.job.rd + (Gone + k)) = ByteAt(bytes, Physical(job.rd) + k)
    BY <1>1, <2>1, ChunkReads DEF MemoryInv
  <2>3. job.op = "mcmp" => FromVirtual(bytes, start.job.rs + (Gone + k)) = ByteAt(bytes, Physical(job.rs) + k)
    BY <1>1, <2>1, ChunkReads DEF MemoryInv
  <2> QED
    BY <2>2, <2>3
<1> HIDE DEF Stops
<1>5. \A k \in 0 .. (Gone + n) - 1 : ~Stops(k)
  <2> TAKE k \in 0 .. (Gone + n) - 1
  <2>1. CASE k < Gone
    BY <1>1, <1>3, <2>1
  <2>2. CASE k >= Gone
    <3>1. k - Gone \in 0 .. n - 1 /\ Gone + (k - Gone) = k
      BY <1>1, <2>2
    <3> QED
      BY <1>4, <3>1
  <2> QED
    BY <1>1, <2>1, <2>2
<1>6. Gone + n \in Nat
  BY <1>1
<1>7. /\ FromVirtual(bytes, Wrap(start.job.rd + (Gone + n))) = FromVirtual(bytes, start.job.rd + (Gone + n))
      /\ FromVirtual(bytes, Wrap(start.job.rs + (Gone + n))) = FromVirtual(bytes, start.job.rs + (Gone + n))
  <2> DEFINE g == Gone + n
  <2>1. g \in Nat
    BY <1>6
  <2> HIDE DEF g
  <2>2. /\ FromVirtual(bytes, Wrap(start.job.rd + g)) = FromVirtual(bytes, start.job.rd + g)
        /\ FromVirtual(bytes, Wrap(start.job.rs + g)) = FromVirtual(bytes, start.job.rs + g)
    BY <1>1, <2>1, ChunkReads DEF MemoryInv
  <2> QED
    BY <2>2 DEF g
<1>8. BlockDone(job', bytes', Gone')
  <2>1. CASE job.op = "mcmp"
    BY <1>2, <1>3, <1>5, <1>7, <2>1 DEF BlockDone, Stops
  <2>2. CASE job.op = "mscan"
    <3>1. job'.rs = job.rs /\ job'.op = "mscan" /\ job'.rs = start.job.rs
      BY <1>1, <1>2, <2>2
    <3>2. s = "done" => job'.flags.z = (job'.rt = 0)
      BY <1>2
    <3>3. s = "done" /\ job'.rt > 0 => Stops(Gone + n)
      BY <1>2, <2>2 DEF Stops
    <3> QED
      BY <1>2, <1>3, <1>5, <2>2, <3>1, <3>2, <3>3 DEF BlockDone, Stops
  <2> QED
    BY <2>1, <2>2
<1> QED
  BY <1>2, <1>8, MemoryKept DEF MemoryInv

LEMMA CompareKeeps ==
  ASSUME MemoryInv, CompareBlocks PROVE MemoryInv'
<1> DEFINE n == Chunk(job.rd, job.rs)
           X(k) == ByteAt(bytes, Physical(job.rd) + k)
           Y(k) == ByteAt(bytes, Physical(job.rs) + k)
           U == {k \in 0 .. n - 1 : X(k) # Y(k)}
           i == Reach(n, U)
           fl == IF job.rt = n THEN Alike ELSE job.flags
<1>1. /\ job.op = "mcmp" /\ job.op \in BlockOps /\ job.state = "running" /\ home' = home /\ gate' = gate /\ start' = start
      /\ bytes' = bytes /\ marks' = marks
  BY DEF CompareBlocks, BlockOps
<1>2. \/ \E why : job' = [job EXCEPT !.state = IF why.vector = "PageFault" THEN "faulted" ELSE "stopped"]
      \/ i < n /\ Finish([Advanced(job, i) EXCEPT !.flags = Below(X(i), Y(i))])
      \/ ~(i < n) /\ Proceed([Advanced(job, n) EXCEPT !.flags = IF job.rt = n THEN Alike ELSE Advanced(job, n).flags])
  BY DEF CompareBlocks
<1>3. /\ Gone \in Nat /\ start.job.rd \in Nat /\ start.job.rs \in Nat /\ job.rt \in Nat
      /\ job.rd = Wrap(start.job.rd + Gone) /\ job.rd \in Nat /\ job.rs \in Nat
      /\ job.rs = Wrap(start.job.rs + Gone)
  BY <1>1, BlockStands
<1>4. n \in 1 .. job.rt /\ n <= Left(job.rd) /\ n <= Left(job.rs)
  <2>1. job.rt \in Nat \ {0}
    BY <1>3 DEF CompareBlocks
  <2> QED
    BY <1>3, <2>1, ChunkFits
<1>5. MapOK /\ JobForm(job) /\ FlagsForm(job.flags)
  BY DEF MemoryInv, JobGoes, JobForm
<1> HIDE DEF n
<1>6. n \in Nat /\ Left(job.rd) \in Nat /\ Left(job.rs) \in Nat
  BY <1>3, <1>4, LeftFits
<1>7. i \in 0 .. n /\ (i < n => i \in U) /\ \A k \in 0 .. i - 1 : k \notin U
  <2>1. U \in SUBSET (0 .. n - 1)
    OBVIOUS
  <2> HIDE DEF U
  <2> QED
    BY <1>6, <2>1, ReachStops
<1>8. \A k \in 0 .. i - 1 : X(k) = Y(k)
  <2> TAKE k \in 0 .. i - 1
  <2>1. k \in 0 .. n - 1 /\ k \notin U
    BY <1>6, <1>7
  <2> QED
    BY <2>1
<1>9. i < n => X(i) # Y(i)
  BY <1>7
<1> HIDE DEF i, U
<1>10. ASSUME NEW why, job' = [job EXCEPT !.state = IF why.vector = "PageFault" THEN "faulted" ELSE "stopped"]
       PROVE  MemoryInv'
  BY <1>1, <1>10, RaiseKeeps
<1>11. ASSUME i < n, Finish([Advanced(job, i) EXCEPT !.flags = Below(X(i), Y(i))]) PROVE MemoryInv'
  <2> DEFINE x == FromVirtual(bytes, start.job.rd + (Gone + i))
             y == FromVirtual(bytes, start.job.rs + (Gone + i))
             b == Below(x, y)
  <2>1. i \in Nat /\ i < Left(job.rd) /\ i < Left(job.rs) /\ job.rt - i > 0 /\ i \in 0 .. job.rt
    BY <1>3, <1>4, <1>6, <1>7, <1>11
  <2>2. x = X(i) /\ y = Y(i)
    BY <1>3, <1>5, <2>1, ChunkReads
  <2>3. FlagsForm(b) /\ b.z = FALSE /\ b.c = (x < y) /\ b.s = (x < y)
    <3> HIDE DEF x, y
    <3> QED
      BY DEF Below, FlagsForm
  <2>4. job' = [[Advanced(job, i) EXCEPT !.flags = b] EXCEPT !.state = "done"]
    BY <1>11, <2>2 DEF Finish
  <2> HIDE DEF b
  <2>5. /\ IF job.rt - i = 0 THEN b.z = TRUE ELSE b.z = FALSE
        /\ x # y /\ b.c = (x < y) /\ b.s = (x < y)
    <3>1. x # y
      BY <1>9, <1>11, <2>2
    <3>2. job.rt - i # 0
      BY <2>1
    <3> QED
      BY <2>3, <3>1, <3>2
  <2>6. i > 0 => i <= Left(job.rd) /\ (job.op = "mcmp" => i <= Left(job.rs))
    BY <1>6, <2>1
  <2> QED
    BY <1>1, <1>8, <2>1, <2>3, <2>4, <2>5, <2>6, LookKeeps
<1>12. ASSUME ~(i < n), Proceed([Advanced(job, n) EXCEPT !.flags = IF job.rt = n THEN Alike ELSE Advanced(job, n).flags])
       PROVE MemoryInv'
  <2>1. i = n
    BY <1>6, <1>7, <1>12
  <2>2. FlagsForm(fl) /\ (job.rt = n => fl.z = TRUE)
    BY <1>5 DEF Alike, FlagsForm
  <2>3. Proceed([Advanced(job, n) EXCEPT !.flags = fl])
    BY <1>5, <1>12, FlagsStay
  <2> HIDE DEF fl
  <2>4. PICK t \in {"done", "running"} :
           /\ job' = [[Advanced(job, n) EXCEPT !.flags = fl] EXCEPT !.state = t]
           /\ t = "done" => job.rt - n = 0
    BY <1>1, <1>5, <2>3, Proceeds
  <2>5. t = "done" => IF job.rt - n = 0 THEN fl.z = TRUE ELSE fl.z = FALSE
    BY <1>3, <1>6, <2>2, <2>4
  <2>6. t = "done" => ~(job.rt - n > 0)
    BY <1>3, <1>6, <2>4
  <2>7. n \in 0 .. job.rt
    BY <1>3, <1>4
  <2> QED
    BY <1>1, <1>4, <1>8, <2>1, <2>2, <2>4, <2>5, <2>6, <2>7, LookKeeps
<1> QED
  BY <1>2, <1>10, <1>11, <1>12

LEMMA ScanKeeps ==
  ASSUME MemoryInv, ScanBlock PROVE MemoryInv'
<1> DEFINE n == Chunk(job.rd, job.rd)
           X(k) == ByteAt(bytes, Physical(job.rd) + k)
           U == {k \in 0 .. n - 1 : X(k) = job.rs}
           i == Reach(n, U)
           found == [job.flags EXCEPT !.z = FALSE]
           fl == [job.flags EXCEPT !.z = IF job.rt = n THEN TRUE ELSE job.flags.z]
<1>1. /\ job.op = "mscan" /\ job.op \in BlockOps /\ job.state = "running" /\ home' = home /\ gate' = gate /\ start' = start
      /\ bytes' = bytes /\ marks' = marks
  BY DEF ScanBlock, BlockOps
<1>2. \/ \E why : Raise(why)
      \/ i < n /\ Finish([Advanced(job, i) EXCEPT !.flags.z = FALSE])
      \/ ~(i < n) /\ Proceed([Advanced(job, n) EXCEPT !.flags.z = IF job.rt = n THEN TRUE ELSE Advanced(job, n).flags.z])
  BY DEF ScanBlock
<1>3. /\ Gone \in Nat /\ start.job.rd \in Nat /\ start.job.rs \in Nat /\ job.rt \in Nat
      /\ job.rd = Wrap(start.job.rd + Gone) /\ job.rd \in Nat /\ job.rs \in Nat
  BY <1>1, BlockStands
<1>4. n \in 1 .. job.rt /\ n <= Left(job.rd)
  <2>1. job.rt \in Nat \ {0}
    BY <1>3 DEF ScanBlock
  <2> QED
    BY <1>3, <2>1, ChunkFits
<1>5. MapOK /\ JobForm(job) /\ FlagsForm(job.flags)
  BY DEF MemoryInv, JobGoes, JobForm
<1> HIDE DEF n
<1>6. n \in Nat /\ Left(job.rd) \in Nat
  BY <1>3, <1>4, LeftFits
<1>7. i \in 0 .. n /\ (i < n => i \in U) /\ \A k \in 0 .. i - 1 : k \notin U
  <2>1. U \in SUBSET (0 .. n - 1)
    OBVIOUS
  <2> HIDE DEF U
  <2> QED
    BY <1>6, <2>1, ReachStops
<1>8. \A k \in 0 .. i - 1 : X(k) # job.rs
  <2> TAKE k \in 0 .. i - 1
  <2>1. k \in 0 .. n - 1 /\ k \notin U
    BY <1>6, <1>7
  <2> QED
    BY <2>1
<1>9. i < n => X(i) = job.rs
  BY <1>7
<1> HIDE DEF i, U
<1>10. ASSUME NEW why, Raise(why) PROVE MemoryInv'
  BY <1>1, <1>10, RaiseKeeps
<1>11. ASSUME i < n, Finish([Advanced(job, i) EXCEPT !.flags.z = FALSE]) PROVE MemoryInv'
  <2>1. i \in Nat /\ i < Left(job.rd) /\ job.rt - i > 0 /\ i \in 0 .. job.rt
    BY <1>3, <1>4, <1>6, <1>7, <1>11
  <2>2. FromVirtual(bytes, start.job.rd + (Gone + i)) = X(i)
    <3> DEFINE g == Gone
    <3>1. g \in Nat /\ job.rd = Wrap(start.job.rd + g) /\ start.job.rd \in Nat
      BY <1>3
    <3> HIDE DEF g
    <3>2. FromVirtual(bytes, start.job.rd + (g + i)) = X(i)
      BY <1>5, <2>1, <3>1, ChunkReads
    <3> QED
      BY <3>2 DEF g
  <2>3. FlagsForm(found) /\ found.z = FALSE
    BY <1>5 DEF FlagsForm
  <2>4. job' = [[Advanced(job, i) EXCEPT !.flags = found] EXCEPT !.state = "done"]
    <3>1. [Advanced(job, i) EXCEPT !.flags.z = FALSE] = [Advanced(job, i) EXCEPT !.flags = [Advanced(job, i).flags EXCEPT !.z = FALSE]]
      OBVIOUS
    <3>2. Advanced(job, i).flags = job.flags
      BY <1>5, FlagsStay
    <3> QED
      BY <1>11, <3>1, <3>2 DEF Finish
  <2> HIDE DEF found
  <2>5. (IF job.rt - i = 0 THEN found.z = TRUE ELSE found.z = FALSE) /\ FromVirtual(bytes, start.job.rd + (Gone + i)) = job.rs
    BY <1>9, <1>11, <2>1, <2>2, <2>3
  <2>6. i > 0 => i <= Left(job.rd) /\ (job.op = "mcmp" => i <= Left(job.rs))
    BY <1>1, <1>6, <2>1
  <2> QED
    BY <1>1, <1>8, <2>1, <2>3, <2>4, <2>5, <2>6, LookKeeps
<1>12. ASSUME ~(i < n), Proceed([Advanced(job, n) EXCEPT !.flags.z = IF job.rt = n THEN TRUE ELSE Advanced(job, n).flags.z])
       PROVE MemoryInv'
  <2>1. i = n
    BY <1>6, <1>7, <1>12
  <2>2. FlagsForm(fl) /\ (job.rt = n => fl.z = TRUE)
    BY <1>5 DEF FlagsForm
  <2>3. Proceed([Advanced(job, n) EXCEPT !.flags = fl])
    <3> DEFINE z(x) == IF job.rt = n THEN TRUE ELSE x
    <3>1. [Advanced(job, n) EXCEPT !.flags.z = z(Advanced(job, n).flags.z)] =
            [Advanced(job, n) EXCEPT !.flags = [Advanced(job, n).flags EXCEPT !.z = z(Advanced(job, n).flags.z)]]
      OBVIOUS
    <3>2. Advanced(job, n).flags = job.flags
      BY <1>5, FlagsStay
    <3> QED
      BY <1>12, <3>1, <3>2
  <2> HIDE DEF fl
  <2>4. PICK t \in {"done", "running"} :
           /\ job' = [[Advanced(job, n) EXCEPT !.flags = fl] EXCEPT !.state = t]
           /\ t = "done" => job.rt - n = 0
    BY <1>1, <1>5, <2>3, Proceeds
  <2>5. t = "done" => IF job.rt - n = 0 THEN fl.z = TRUE ELSE fl.z = FALSE
    BY <1>3, <1>6, <2>2, <2>4
  <2>6. t = "done" => ~(job.rt - n > 0)
    BY <1>3, <1>6, <2>4
  <2>7. n \in 0 .. job.rt
    BY <1>3, <1>4
  <2> QED
    BY <1>1, <1>4, <1>8, <2>1, <2>2, <2>4, <2>5, <2>6, <2>7, LookKeeps
<1> QED
  BY <1>2, <1>10, <1>11, <1>12

LEMMA NothingKeeps ==
  ASSUME MemoryInv, Nothing PROVE MemoryInv'
<1>1. /\ job.op \in BlockOps /\ job.state = "running" /\ job.rt = 0 /\ home' = home /\ gate' = gate /\ start' = start
      /\ bytes' = bytes /\ marks' = marks
  BY DEF Nothing
<1>2. JobGoes /\ JobForm(job) /\ FlagsForm(job.flags)
  BY DEF MemoryInv, JobGoes, JobForm
<1>3. PICK fl : /\ job' = [[job EXCEPT !.flags = fl] EXCEPT !.state = "done"] /\ FlagsForm(fl)
                /\ job.op \in {"mcmp", "mscan"} => fl.z = TRUE
                /\ job.op \in {"mcpy", "mset"} => fl = job.flags
  <2>1. CASE job.op = "mcmp"
    <3>1. job' = [[job EXCEPT !.flags = Alike] EXCEPT !.state = "done"]
      BY <2>1 DEF Nothing, Finish
    <3>2. FlagsForm(Alike) /\ Alike.z = TRUE
      BY DEF FlagsForm, Alike
    <3> QED
      BY <2>1, <3>1, <3>2
  <2>2. CASE job.op = "mscan"
    <3> DEFINE fl == [job.flags EXCEPT !.z = TRUE]
    <3>1. job' = [[job EXCEPT !.flags = fl] EXCEPT !.state = "done"]
      BY <2>2 DEF Nothing, Finish
    <3>2. FlagsForm(fl) /\ fl.z = TRUE
      BY <1>2 DEF FlagsForm
    <3> HIDE DEF fl
    <3> QED
      BY <2>2, <3>1, <3>2
  <2>3. CASE job.op \in {"mcpy", "mset"}
    <3>1. job' = [job EXCEPT !.state = "done"]
      BY <2>3 DEF Nothing, Finish
    <3>2. PICK j : j = [job EXCEPT !.flags = job.flags]
      OBVIOUS
    <3>3. j = [x \in Fields |-> j[x]] /\ \A x \in Fields : j[x] = job[x]
      BY <1>2, <3>2 DEF JobForm, Fields
    <3>4. j = job
      BY <1>2, <3>3 DEF JobForm
    <3> QED
      BY <1>2, <2>3, <3>1, <3>2, <3>4
  <2> QED
    BY <1>1, <2>1, <2>2, <2>3 DEF BlockOps
<1>4. /\ JobForm(job') /\ job'.op = job.op /\ job'.at = job.at /\ job'.rd = job.rd /\ job'.rs = job.rs /\ job'.rt = job.rt
      /\ job'.flags = fl /\ job'.value = job.value /\ job'.size = job.size
  BY <1>2, <1>3 DEF JobForm, Fields
<1>5. JobGoes'
  <2>1. JobForm(job)'
    BY <1>4 DEF JobForm, Fields
  <2>2. job.op \in {"mcpy", "mset"} => job'.flags = start'.job.flags
    BY <1>1, <1>2, <1>3, <1>4 DEF JobGoes
  <2> QED
    BY <1>1, <1>2, <1>4, <2>1, <2>2 DEF JobGoes
<1>6. Gone' = Gone
  BY <1>1, <1>4 DEF Gone
<1>7. BlockDone(job', bytes', Gone')
  <2>1. BlockDone(job, bytes, Gone)
    BY BlockNow DEF MemoryInv
  <2>2. job.op \in {"mcpy", "mset"} => job'.flags = start.job.flags
    BY <1>2, <1>3, <1>4 DEF JobGoes
  <2>3. /\ job'.rt = 0 /\ ~(job'.rt > 0) /\ job'.state = "done"
        /\ job.op \in {"mcmp", "mscan"} => job'.flags.z = (job'.rt = 0)
    <3>1. job'.state = "done"
      BY <1>2, <1>3 DEF JobForm, Fields
    <3>2. job'.rt = 0
      BY <1>1, <1>4
    <3>3. (job'.rt = 0) = TRUE /\ ~(job'.rt > 0)
      BY <3>2
    <3>4. job.op \in {"mcmp", "mscan"} => job'.flags.z = TRUE
      BY <1>3, <1>4
    <3> QED
      BY <3>1, <3>2, <3>3, <3>4
  <2>4. CASE job.op \in {"mcpy", "mset"}
    BY <1>1, <1>4, <1>6, <2>1, <2>2, <2>3, <2>4 DEF BlockDone, BlockOps
  <2>5. CASE job.op = "mcmp"
    BY <1>1, <1>4, <1>6, <2>1, <2>3, <2>5 DEF BlockDone, BlockOps
  <2>6. CASE job.op = "mscan"
    BY <1>1, <1>4, <1>6, <2>1, <2>3, <2>6 DEF BlockDone, BlockOps
  <2> QED
    BY <1>1, <2>4, <2>5, <2>6 DEF BlockOps
<1> QED
  BY <1>1, <1>4, <1>5, <1>7, MemoryKept DEF MemoryInv

LEMMA RepairKeeps ==
  ASSUME MemoryInv, Repair \/ Steal PROVE MemoryInv'
<1>1. /\ job' = [job EXCEPT !.state = "running"]
      /\ home' = home /\ gate' = gate /\ start' = start /\ bytes' = bytes /\ marks' = marks
  <2>1. CASE Repair
    BY <2>1 DEF Repair
  <2>2. CASE Steal
    <3>1. PICK j : j = [job EXCEPT !.state = "running"]
      OBVIOUS
    <3>2. job = [x \in Fields |-> job[x]] /\ job.state = "running"
      BY <2>2 DEF Steal, MemoryInv, JobGoes, JobForm
    <3>3. j = [x \in Fields |-> j[x]] /\ \A x \in Fields : j[x] = job[x]
      BY <3>1, <3>2 DEF Fields
    <3>4. j = job
      BY <3>2, <3>3
    <3> QED
      BY <2>2, <3>1, <3>4 DEF Steal
  <2> QED
    BY <2>1, <2>2
<1> QED
  BY <1>1, WaitKeeps

LEMMA AccessStep ==
  ASSUME MemoryInv, [AccessAt]_accessVars PROVE MemoryInv'
<1>1. CASE UNCHANGED accessVars
  <2>1. home' = home /\ gate' = gate /\ start' = start /\ bytes' = bytes /\ marks' = marks /\ job' = job
    BY <1>1 DEF accessVars
  <2>2. JobGoes' /\ Gone' = Gone
    BY <2>1 DEF MemoryInv, JobGoes, JobForm, FlagsForm, Gone
  <2>3. BlockDone(job', bytes', Gone')
    BY <2>1, <2>2, BlockNow DEF MemoryInv
  <2> QED
    BY <2>1, <2>2, <2>3, MemoryKept DEF MemoryInv
<1> QED
  BY <1>1, LoadKeeps, StoreKeeps, CopyKeeps, SetKeeps, CompareKeeps, ScanKeeps, NothingKeeps, RepairKeeps DEF AccessAt

(* MemoryInv is inductive: besides the two properties it says what is left  *)
(* to do, and that there are bytes where there is memory.                   *)
THEOREM AccessInductive == AccessSpec => []MemoryInv
BY AccessStep, MemoryBegins, PTL DEF AccessSpec

(* Whatever faults and however often it is interrupted, a block instruction *)
(* has done what a loop over single bytes would have, and no byte of the    *)
(* VRAM has changed on a page that is not marked.                           *)
THEOREM BlocksAreByteLoops == AccessSpec => []AccessesAreSound
<1>1. MemoryInv => AccessesAreSound
  BY DEF MemoryInv, AccessesAreSound
<1> QED
  BY <1>1, AccessInductive, PTL

-----------------------------------------------------------------------------
(* Faults                                                                   *)

LEMMA FirstOfLast ==
  ASSUME NEW m \in Nat \ {0}, NEW s, DOMAIN s = 1 .. m, \A k \in 1 .. m - 1 : s[k].vector = "none"
  PROVE  FirstOf(s) = IF s[m].vector # "none" THEN s[m] ELSE NoFault
<1> DEFINE raised == {k \in DOMAIN s : s[k].vector # "none"}
<1>1. FirstOf(s) = IF raised = {} THEN NoFault ELSE s[Min(raised)]
  BY DEF FirstOf
<1>2. raised \in SUBSET {m} /\ (m \in raised <=> s[m].vector # "none")
  OBVIOUS
<1>3. ASSUME s[m].vector # "none" PROVE FirstOf(s) = s[m]
  <2>1. raised = {m}
    BY <1>2, <1>3
  <2> HIDE DEF raised
  <2>2. Min(raised) = m
    BY <2>1, LeastOf
  <2> QED
    BY <1>1, <2>1, <2>2
<1>4. ASSUME s[m].vector = "none" PROVE FirstOf(s) = NoFault
  <2>1. raised = {}
    BY <1>2, <1>4
  <2> HIDE DEF raised
  <2> QED
    BY <1>1, <2>1
<1> QED
  BY <1>3, <1>4

(* A fault has a vector, and the address of the access.                     *)
Plain(x, a) == x = NoFault \/ (x.vector # "none" /\ x.at = a /\ "at" \in DOMAIN x)
LEMMA FaultsArePlain ==
  ASSUME NEW a, NEW access, NEW n
  PROVE  /\ Plain(Accessing(a, access, n), a) /\ Plain(Aligning(a, access, n), a) /\ Plain(Storing(a, n), a)
         /\ Accessing(a, access, n).vector = "none" <=> Accessing(a, access, n) = NoFault
<1>1. NoFault.vector = "none"
  BY DEF NoFault
<1>2. \A x \in {"PageFault", "MemoryFault", "AlignmentFault"} : \A acc, size, reason : Plain(Fault(x, a, acc, size, reason), a)
  BY DEF Plain, Fault
<1>3. Plain(Aligning(a, access, n), a) /\ Plain(Storing(a, n), a)
  <2>1. Plain(NoFault, a)
    BY DEF Plain
  <2> QED
    BY <1>2, <2>1 DEF Aligning, Storing
<1> DEFINE t == Translating(a, access)
           r == IF Present(a, access) THEN Reaching(a, access, n) ELSE NoFault
           s == <<t, r>>
<1>4. Plain(t, a) /\ Plain(r, a)
  <2>1. Plain(NoFault, a)
    BY DEF Plain
  <2>2. Plain(Reaching(a, access, n), a)
    BY <1>2, <2>1 DEF Reaching
  <2> QED
    BY <1>2, <2>1, <2>2 DEF Translating
<1>5. Accessing(a, access, n) = FirstOf(s)
  BY DEF Accessing
<1>6. t = NoFault \/ r = NoFault
  BY DEF Translating
<1> HIDE DEF t, r
<1>7. DOMAIN s = 1 .. 2 /\ s[1] = t /\ s[2] = r
  OBVIOUS
<1>8. CASE t = NoFault
  <2>1. \A k \in 1 .. 2 - 1 : s[k].vector = "none"
    BY <1>1, <1>7, <1>8
  <2>2. FirstOf(s) = IF s[2].vector # "none" THEN s[2] ELSE NoFault
    <3> DEFINE m == 2
    <3>1. m \in Nat \ {0} /\ DOMAIN s = 1 .. m /\ \A k \in 1 .. m - 1 : s[k].vector = "none"
      BY <1>7, <2>1
    <3> HIDE DEF s, m
    <3>2. FirstOf(s) = IF s[m].vector # "none" THEN s[m] ELSE NoFault
      BY <3>1, FirstOfLast
    <3> QED
      BY <3>2 DEF m
  <2>3. Accessing(a, access, n) = r
    BY <1>1, <1>4, <1>5, <1>7, <2>2 DEF Plain
  <2> QED
    BY <1>1, <1>3, <1>4, <2>3 DEF Plain
<1>9. CASE t # NoFault
  <2>1. t.vector # "none" /\ r.vector = "none"
    BY <1>1, <1>4, <1>6, <1>9 DEF Plain
  <2> DEFINE raised == {k \in DOMAIN s : s[k].vector # "none"}
  <2>2. raised = {1}
    BY <1>7, <2>1
  <2>3. FirstOf(s) = s[Min(raised)]
    <3>1. FirstOf(s) = IF raised = {} THEN NoFault ELSE s[Min(raised)]
      BY DEF FirstOf
    <3> HIDE DEF raised
    <3> QED
      BY <2>2, <3>1
  <2>4. Min({1}) = 1
    BY LeastOf
  <2>5. Accessing(a, access, n) = t
    <3> HIDE DEF raised
    <3> QED
      BY <1>5, <1>7, <2>2, <2>3, <2>4
  <2> QED
    BY <1>1, <1>3, <1>4, <2>1, <2>5 DEF Plain
<1> QED
  BY <1>8, <1>9

LEMMA FirstOfNone ==
  ASSUME NEW m \in Nat, NEW s, DOMAIN s = 1 .. m, FirstOf(s) = NoFault
  PROVE  \A k \in 1 .. m : s[k].vector = "none"
<1> DEFINE raised == {k \in DOMAIN s : s[k].vector # "none"}
<1>1. FirstOf(s) = IF raised = {} THEN NoFault ELSE s[Min(raised)]
  BY DEF FirstOf
<1>2. NoFault.vector = "none"
  BY DEF NoFault
<1>3. raised \in SUBSET Nat /\ \A k \in raised : s[k].vector # "none"
  OBVIOUS
<1>4. raised = {}
  <2> SUFFICES ASSUME raised # {} PROVE FALSE
    OBVIOUS
  <2> HIDE DEF raised
  <2>1. Min(raised) \in raised
    BY <1>3, LeastOf
  <2> QED
    BY <1>1, <1>2, <1>3, <2>1
<1> QED
  BY <1>4

(* What stops an access whose first half goes through is its second.        *)
LEMMA SecondHalf ==
  ASSUME NEW a, NEW size, NEW access, NEW n, NEW S, NEW before \in Seq(S),
         \A k \in 1 .. Len(before) : before[k].vector = "none",
         Clear(Halves(a, size), access, n) # 0, Stopping(before, Halves(a, size), access, n) # NoFault
  PROVE  /\ size = 8 /\ Stopping(before, Halves(a, size), access, n).at = Wrap(a + 4)
         /\ "at" \in DOMAIN Stopping(before, Halves(a, size), access, n)
<1> DEFINE parts == Halves(a, size)
           A(k) == Accessing(parts[k], access, n)
           tail == [k \in 1 .. Len(parts) |-> A(k)]
           s == before \o tail
           b == Len(before)
<1>1. A(1) = NoFault
  BY DEF Clear
<1>2. /\ Len(parts) \in {1, 2} /\ (Len(parts) = 2 => size = 8 /\ parts[2] = Wrap(a + 4))
  BY DEF Halves
<1>3. NoFault.vector = "none"
  BY DEF NoFault
<1>4. \A k \in 1 .. 2 : Plain(A(k), parts[k])
  BY FaultsArePlain
<1>5. Stopping(before, parts, access, n) = FirstOf(s)
  BY DEF Stopping
<1> HIDE DEF A, parts
<1>6. b \in Nat /\ DOMAIN before = 1 .. b
  OBVIOUS
<1>7. /\ tail \in Seq({A(1), A(2)}) /\ Len(tail) = Len(parts) /\ tail[1] = A(1) /\ (Len(parts) = 2 => tail[2] = A(2))
  <2>1. CASE Len(parts) = 1
    <3>1. tail = <<A(1)>>
      BY <2>1
    <3> HIDE DEF tail
    <3> QED
      BY <2>1, <3>1
  <2>2. CASE Len(parts) = 2
    <3>1. tail = <<A(1), A(2)>>
      BY <2>2
    <3> HIDE DEF tail
    <3> QED
      BY <2>2, <3>1
  <2> QED
    BY <1>2, <2>1, <2>2
<1> HIDE DEF tail, s
<1> DEFINE m == b + Len(parts)
<1>8. /\ DOMAIN s = 1 .. m /\ m \in Nat \ {0}
      /\ \A k \in 1 .. b : s[k] = before[k]
      /\ s[b + 1] = A(1) /\ (Len(parts) = 2 => s[b + 2] = A(2))
  <2> DEFINE T == S \cup {A(1), A(2)}
  <2>1. before \in Seq(T) /\ tail \in Seq(T)
    BY <1>7
  <2> HIDE DEF T
  <2>2. s \in Seq(T) /\ Len(s) = Len(before) + Len(tail)
    BY <2>1 DEF s
  <2>3. \A k \in 1 .. Len(before) + Len(tail) : s[k] = IF k <= Len(before) THEN before[k] ELSE tail[k - Len(before)]
    BY <2>1 DEF s
  <2>4. b + 1 \in 1 .. b + Len(tail) /\ ~(b + 1 <= b) /\ (b + 1) - b = 1
    BY <1>2, <1>6, <1>7
  <2>5. Len(parts) = 2 => b + 2 \in 1 .. b + Len(tail) /\ ~(b + 2 <= b) /\ (b + 2) - b = 2
    BY <1>6, <1>7
  <2>6. DOMAIN s = 1 .. m /\ m \in Nat \ {0}
    BY <1>2, <1>6, <1>7, <2>2
  <2>7. \A k \in 1 .. b : s[k] = before[k]
    BY <1>2, <1>6, <1>7, <2>3
  <2> QED
    BY <1>7, <2>3, <2>4, <2>5, <2>6, <2>7
<1>9. ASSUME NEW k \in 1 .. m - 1 PROVE s[k].vector = "none"
  <2> DEFINE l == Len(parts)
  <2>0. l \in {1, 2} /\ k \in 1 .. (b + l) - 1
    BY <1>2, <1>9
  <2>1. k \in 1 .. b \/ k = b + 1
    <3> HIDE DEF l, b
    <3> QED
      BY <1>6, <2>0
  <2> QED
    BY <1>1, <1>3, <1>8, <2>1
<1>10. FirstOf(s) = IF s[m].vector # "none" THEN s[m] ELSE NoFault
  <2> HIDE DEF m
  <2> QED
    BY <1>8, <1>9, FirstOfLast
<1>11. Len(parts) # 1
  <2> SUFFICES ASSUME Len(parts) = 1 PROVE FALSE
    OBVIOUS
  <2>1. s[m] = NoFault
    BY <1>1, <1>8
  <2> QED
    BY <1>3, <1>5, <1>10, <2>1 DEF parts
<1>12. s[m] = A(2) /\ Len(parts) = 2
  BY <1>2, <1>8, <1>11
<1>13. FirstOf(s) = A(2) /\ A(2) # NoFault
  BY <1>5, <1>10, <1>12 DEF parts
<1> QED
  BY <1>2, <1>4, <1>5, <1>12, <1>13 DEF parts, Plain

(* The devices see the accesses that go through, the first half first.      *)
BusKnown ==
  /\ start.job.at \in 0 .. AddressSpace - 1
  /\ bus \in Seq([access : {"read", "write"}, at : 0 .. AddressSpace - 1])

LEMMA SeenOnTheBus ==
  ASSUME MapOK, NEW a \in 0 .. AddressSpace - 1, NEW size, NEW access \in {"read", "write"}, NEW reached \in {0, 1, 2},
         reached = 2 => size = 8
  PROVE  Reported(Halves(a, size), reached, access) \in Seq([access : {"read", "write"}, at : 0 .. AddressSpace - 1])
<1> DEFINE S == [access : {"read", "write"}, at : 0 .. AddressSpace - 1]
<1>1. ASSUME NEW x \in 0 .. AddressSpace - 1 PROVE DeviceAccess(x, access) \in Seq(S)
  <2>1. x \in Nat /\ AddressSpace \in Nat
    BY <1>1, SpaceFacts
  <2>2. Physical(x) + 0 \in 0 .. AddressSpace - 1 /\ Physical(x) \in Nat
    <3>1. 0 \in Nat /\ 0 < Left(x)
      BY <2>1, LeftFits
    <3> QED
      BY <1>1, <3>1, Window
  <2>3. Physical(x) \in 0 .. AddressSpace - 1
    BY <2>2
  <2>4. [access |-> access, at |-> Physical(x)] \in S
    BY <2>3
  <2> HIDE DEF S
  <2> QED
    BY <2>4 DEF DeviceAccess
<1>2. Wrap(a + 4) \in 0 .. AddressSpace - 1
  BY SpaceFacts
<1>3. Halves(a, size)[1] = a /\ (size = 8 => Halves(a, size)[2] = Wrap(a + 4))
  BY DEF Halves
<1> HIDE DEF S
<1>4. /\ DeviceAccess(Halves(a, size)[1], access) \in Seq(S)
      /\ reached = 2 => DeviceAccess(Halves(a, size)[2], access) \in Seq(S)
  BY <1>1, <1>2, <1>3
<1>5. Reported(Halves(a, size), reached, access) \in Seq(S)
  <2>1. CASE reached = 0
    BY <2>1 DEF Reported
  <2>2. CASE reached = 1
    BY <1>4, <2>2 DEF Reported
  <2>3. CASE reached = 2
    BY <1>4, <2>3 DEF Reported
  <2> QED
    BY <2>1, <2>2, <2>3
<1> QED
  BY <1>5 DEF S

LEMMA ClearHalves ==
  ASSUME NEW a, NEW size, NEW access, NEW n
  PROVE  Clear(Halves(a, size), access, n) \in {0, 1, 2} /\ (Clear(Halves(a, size), access, n) = 2 => size = 8)
<1>1. Len(Halves(a, size)) = IF size = 8 THEN 2 ELSE 1
  BY DEF Halves
<1> QED
  BY <1>1 DEF Clear

LEMMA BusKept ==
  ASSUME MemoryInv, BusKnown, [AccessAt]_accessVars PROVE BusKnown'
<1>1. home' = home /\ start' = start
  BY DEF AccessAt, accessVars, Load, Store, CopyBlock, SetBlock, CompareBlocks, ScanBlock, Nothing, Repair, Steal
<1>2. AddressSpace' = AddressSpace
  BY <1>1 DEF AddressSpace, SpaceOf
<1> DEFINE S == [access : {"read", "write"}, at : 0 .. AddressSpace - 1]
<1>3. MapOK /\ job.at \in 0 .. AddressSpace - 1 /\ bus \in Seq(S)
  BY DEF MemoryInv, JobGoes, BusKnown
<1>4. \/ bus' = bus
      \/ \E access \in {"read", "write"}, reached \in {0, 1, 2} :
           (reached = 2 => job.size = 8) /\ bus' = bus \o Reported(Halves(job.at, job.size), reached, access)
  <2>1. CASE Load
    <3> DEFINE reached == IF Aligned(job.at, job.size) THEN Clear(Halves(job.at, job.size), "read", Part(job.size)) ELSE 0
    <3>1. bus' = bus \o Reported(Halves(job.at, job.size), reached, "read")
      BY <2>1 DEF Load
    <3>2. reached \in {0, 1, 2} /\ (reached = 2 => job.size = 8)
      BY ClearHalves
    <3> HIDE DEF reached
    <3> QED
      BY <3>1, <3>2
  <2>2. CASE Store
    <3> DEFINE reached == IF FirstOf(<<Aligning(job.at, "write", job.size), Storing(job.at, job.size)>>) = NoFault
                            THEN Clear(Halves(job.at, job.size), "write", Part(job.size)) ELSE 0
    <3>1. bus' = bus \o Reported(Halves(job.at, job.size), reached, "write")
      BY <2>2 DEF Store
    <3>2. reached \in {0, 1, 2} /\ (reached = 2 => job.size = 8)
      BY ClearHalves
    <3> HIDE DEF reached
    <3> QED
      BY <3>1, <3>2
  <2>3. CASE ~(Load \/ Store)
    BY <2>3 DEF AccessAt, accessVars, CopyBlock, SetBlock, CompareBlocks, ScanBlock, Nothing, Repair, Steal
  <2> QED
    BY <2>1, <2>2, <2>3
<1>5. bus' \in Seq(S)
  <2>1. ASSUME NEW access \in {"read", "write"}, NEW reached \in {0, 1, 2}, reached = 2 => job.size = 8
        PROVE  Reported(Halves(job.at, job.size), reached, access) \in Seq(S)
    BY <1>3, <2>1, SeenOnTheBus
  <2> HIDE DEF S
  <2>2. CASE bus' # bus
    <3>1. PICK access \in {"read", "write"}, reached \in {0, 1, 2} :
            (reached = 2 => job.size = 8) /\ bus' = bus \o Reported(Halves(job.at, job.size), reached, access)
      BY <1>4, <2>2
    <3> DEFINE shown == Reported(Halves(job.at, job.size), reached, access)
    <3>2. shown \in Seq(S) /\ bus' = bus \o shown
      BY <2>1, <3>1
    <3> HIDE DEF shown
    <3> QED
      BY <1>3, <3>2
  <2> QED
    BY <1>3, <2>2
<1> QED
  BY <1>1, <1>2, <1>5 DEF BusKnown

LEMMA BusBegins == AccessInit => BusKnown
<1> SUFFICES ASSUME AccessInit PROVE BusKnown
  OBVIOUS
<1>1. start.job.at = job.at /\ bus = <<>>
  BY DEF AccessInit
<1>2. {job.at, job.rd} \subseteq 0 .. AddressSpace - 1
  BY JobsAssumption DEF AccessInit, AddressSpace
<1> QED
  BY <1>1, <1>2 DEF BusKnown

LEMMA Restored ==
  ASSUME JobForm(job), job.state = "running", NEW s, job' = [job EXCEPT !.state = s]
  PROVE  [job' EXCEPT !.state = "running"] = job
<1>1. PICK j : j = [job' EXCEPT !.state = "running"]
  OBVIOUS
<1>2. job' = [x \in Fields |-> job'[x]] /\ \A x \in Fields \ {"state"} : job'[x] = job[x]
  BY DEF JobForm, Fields
<1>3. j = [x \in Fields |-> j[x]] /\ \A x \in Fields : j[x] = job[x]
  BY <1>1, <1>2 DEF Fields
<1>4. j = job
  BY <1>3 DEF JobForm
<1> QED
  BY <1>1, <1>4

LEMMA NotFaulted ==
  ASSUME JobForm(job), job.state = "running", NEW n, NEW fl,
         \/ Proceed([Advanced(job, n) EXCEPT !.flags = fl])
         \/ Finish([Advanced(job, n) EXCEPT !.flags = fl])
  PROVE  job'.state \in {"done", "running"}
<1>1. PICK s \in {"done", "running"} : job' = [[Advanced(job, n) EXCEPT !.flags = fl] EXCEPT !.state = s]
  BY Proceeds DEF Finish
<1> DEFINE rs == IF job.op \in {"mcpy", "mcmp"} THEN Wrap(job.rs + n) ELSE job.rs
           rd == Wrap(job.rd + n)
           rt == job.rt - n
           a == [job EXCEPT !.rd = rd, !.rs = rs, !.rt = rt]
<1>2. Advanced(job, n) = a
  BY DEF Advanced, JobForm, Fields
<1> HIDE DEF rd, rs, rt
<1>3. a = [x \in Fields |-> a[x]]
  BY DEF JobForm, Fields
<1> HIDE DEF a
<1>4. job' = [[a EXCEPT !.flags = fl] EXCEPT !.state = s]
  BY <1>1, <1>2
<1>5. job'.state = s
  BY <1>3, <1>4 DEF Fields
<1> QED
  BY <1>5

(* What FaultsLeaveNoTrace says of a step that faults.                      *)
Faulting == job.state = "running" /\ job'.state \in {"faulted", "stopped"}
NoTrace ==
  /\ [job' EXCEPT !.state = "running"] = job
  /\ \/ bytes' = bytes /\ bus' = bus /\ marks' = marks
     \/ job.size = 8 /\ faulted'.at = Wrap(job.at + 4) /\ job.op \in {"load", "store"}

(* The job of a load or a store that faults, and where it faulted.          *)
LEMMA RaiseIsFault ==
  ASSUME JobForm(job), Faulting, NEW why, NEW j,
         IF why = NoFault THEN Finish(j) ELSE Raise(why), j.state = "running", DOMAIN j = Fields
  PROVE  /\ why # NoFault /\ [job' EXCEPT !.state = "running"] = job
         /\ "at" \in DOMAIN why => faulted'.at = why.at
<1>1. why # NoFault
  <2> SUFFICES ASSUME why = NoFault PROVE FALSE
    OBVIOUS
  <2>1. job' = [j EXCEPT !.state = "done"]
    BY DEF Finish
  <2>2. job'.state = "done"
    BY <2>1 DEF Fields
  <2> QED
    BY <2>2 DEF Faulting
<1>2. PICK s : job' = [job EXCEPT !.state = s]
  BY <1>1 DEF Raise
<1>3. [job' EXCEPT !.state = "running"] = job
  BY <1>2, Restored DEF Faulting
<1>4. PICK t : faulted' = [why EXCEPT !.times = t]
  BY <1>1 DEF Raise
<1> QED
  BY <1>1, <1>3, <1>4

LEMMA NothingReported ==
  ASSUME BusKnown, NEW parts, NEW access
  PROVE  bus \o Reported(parts, 0, access) = bus
BY DEF BusKnown, Reported

LEMMA LoadFaults ==
  ASSUME MemoryInv, BusKnown, Load, Faulting PROVE NoTrace
<1> DEFINE parts == Halves(job.at, job.size)
           n == Part(job.size)
           before == <<Aligning(job.at, "read", job.size)>>
           why == Stopping(before, parts, "read", n)
           reached == IF Aligned(job.at, job.size) THEN Clear(parts, "read", n) ELSE 0
           data == FlattenSeq([k \in 1 .. Len(parts) |-> BytesAt(bytes, Physical(parts[k]), n)])
           value == Extended(data, job.signed)
           j == [job EXCEPT !.value = value]
<1>1. /\ bus' = bus \o Reported(parts, reached, "read") /\ bytes' = bytes /\ marks' = marks /\ job.op = "load"
      /\ IF why = NoFault THEN Finish(j) ELSE Raise(why)
  BY DEF Load
<1>2. JobForm(job) /\ job.state = "running"
  BY DEF MemoryInv, JobGoes, Faulting
<1>3. j.state = "running" /\ DOMAIN j = Fields
  <2> HIDE DEF value
  <2> QED
    BY <1>2 DEF JobForm, Fields
<1>4. /\ why # NoFault /\ [job' EXCEPT !.state = "running"] = job
      /\ "at" \in DOMAIN why => faulted'.at = why.at
  <2> HIDE DEF why, j
  <2> QED
    BY <1>1, <1>2, <1>3, RaiseIsFault
<1>5. CASE reached = 0
  <2> HIDE DEF reached, parts
  <2>1. bus' = bus
    BY <1>1, <1>5, NothingReported
  <2> QED
    BY <1>1, <1>4, <2>1 DEF NoTrace
<1>6. CASE reached # 0
  <2>1. Aligned(job.at, job.size) /\ Clear(parts, "read", n) # 0
    BY <1>6
  <2>2. before = <<NoFault>>
    BY <2>1 DEF Aligning
  <2>3. before \in Seq({NoFault}) /\ \A k \in 1 .. Len(before) : before[k].vector = "none"
    <3> HIDE DEF before
    <3>1. NoFault.vector = "none"
      BY DEF NoFault
    <3> QED
      BY <2>2, <3>1
  <2>4. job.size = 8 /\ why.at = Wrap(job.at + 4) /\ "at" \in DOMAIN why
    <3> HIDE DEF before, n
    <3> QED
      BY <1>4, <2>1, <2>3, SecondHalf
  <2> QED
    BY <1>1, <1>4, <2>4 DEF NoTrace
<1> QED
  BY <1>5, <1>6

LEMMA StoreFaults ==
  ASSUME MemoryInv, BusKnown, Store, Faulting PROVE NoTrace
<1> DEFINE parts == Halves(job.at, job.size)
           n == Part(job.size)
           before == <<Aligning(job.at, "write", job.size), Storing(job.at, job.size)>>
           reached == IF FirstOf(before) = NoFault THEN Clear(parts, "write", n) ELSE 0
           why == Stopping(before, parts, "write", n)
           Marking(k) == Marked(Physical(parts[k]), n)
<1>1. /\ bus' = bus \o Reported(parts, reached, "write") /\ job.op = "store"
      /\ reached = 0 => bytes' = bytes
      /\ marks' = marks \cup UNION {Marking(k) : k \in 1 .. reached}
      /\ IF why = NoFault THEN Finish(job) ELSE Raise(why)
  BY DEF Store
<1>2. JobForm(job) /\ job.state = "running" /\ DOMAIN job = Fields
  BY DEF MemoryInv, JobGoes, Faulting, JobForm
<1>3. /\ why # NoFault /\ [job' EXCEPT !.state = "running"] = job
      /\ "at" \in DOMAIN why => faulted'.at = why.at
  <2> HIDE DEF why
  <2> QED
    BY <1>1, <1>2, RaiseIsFault
<1>4. CASE reached = 0
  <2> HIDE DEF reached, parts, Marking
  <2>1. bus' = bus
    BY <1>1, <1>4, NothingReported
  <2>2. marks' = marks
    BY <1>1, <1>4
  <2> QED
    BY <1>1, <1>3, <1>4, <2>1, <2>2 DEF NoTrace
<1>5. CASE reached # 0
  <2>1. FirstOf(before) = NoFault /\ Clear(parts, "write", n) # 0
    BY <1>5
  <2> DEFINE m == 2
             S == {before[1], before[2]}
  <2>2. m \in Nat /\ DOMAIN before = 1 .. m /\ Len(before) = m /\ before \in Seq(S)
    OBVIOUS
  <2>3. \A k \in 1 .. Len(before) : before[k].vector = "none"
    <3> HIDE DEF before, m
    <3> QED
      BY <2>1, <2>2, FirstOfNone
  <2>4. job.size = 8 /\ why.at = Wrap(job.at + 4) /\ "at" \in DOMAIN why
    <3> HIDE DEF before, n, S, m
    <3> QED
      BY <1>3, <2>1, <2>2, <2>3, SecondHalf
  <2> QED
    BY <1>1, <1>3, <2>4 DEF NoTrace
<1> QED
  BY <1>4, <1>5

LEMMA BlockFaults ==
  ASSUME MemoryInv, CopyBlock \/ SetBlock \/ CompareBlocks \/ ScanBlock, Faulting PROVE NoTrace
<1>1. JobForm(job) /\ job.state = "running" /\ job'.state \notin {"done", "running"}
  BY DEF MemoryInv, JobGoes, Faulting
<1>2. ASSUME NEW n, Proceed(Advanced(job, n)) PROVE FALSE
  <2>1. Proceed([Advanced(job, n) EXCEPT !.flags = job.flags])
    BY <1>1, <1>2, FlagsStay
  <2> QED
    BY <1>1, <2>1, NotFaulted
<1>3. ASSUME NEW n, NEW fl,
             Proceed([Advanced(job, n) EXCEPT !.flags = fl]) \/ Finish([Advanced(job, n) EXCEPT !.flags = fl])
      PROVE  FALSE
  BY <1>1, <1>3, NotFaulted
<1>4. ASSUME NEW s, job' = [job EXCEPT !.state = s], bytes' = bytes, bus' = bus, marks' = marks PROVE NoTrace
  BY <1>1, <1>4, Restored DEF NoTrace
<1>5. CASE CopyBlock
  <2>1. (\E n : Proceed(Advanced(job, n))) \/ (\E why : Raise(why) /\ bytes' = bytes /\ marks' = marks /\ bus' = bus)
    BY <1>5 DEF CopyBlock
  <2> QED
    BY <1>2, <1>4, <2>1 DEF Raise
<1>6. CASE SetBlock
  <2>1. (\E n : Proceed(Advanced(job, n))) \/ (\E why : Raise(why) /\ bytes' = bytes /\ marks' = marks /\ bus' = bus)
    BY <1>6 DEF SetBlock
  <2> QED
    BY <1>2, <1>4, <2>1 DEF Raise
<1>7. CASE CompareBlocks
  <2>1. bytes' = bytes /\ bus' = bus /\ marks' = marks
    BY <1>7 DEF CompareBlocks
  <2>2. \/ \E s : job' = [job EXCEPT !.state = s]
        \/ \E n, x, y : Finish([Advanced(job, n) EXCEPT !.flags = Below(x, y)])
        \/ \E n : Proceed([Advanced(job, n) EXCEPT !.flags = IF job.rt = n THEN Alike ELSE @])
    BY <1>7 DEF CompareBlocks
  <2> QED
    BY <1>3, <1>4, <2>1, <2>2
<1>8. CASE ScanBlock
  <2>1. bytes' = bytes /\ bus' = bus /\ marks' = marks
    BY <1>8 DEF ScanBlock
  <2>2. \/ \E s : job' = [job EXCEPT !.state = s]
        \/ \E n : Finish([Advanced(job, n) EXCEPT !.flags.z = FALSE])
        \/ \E n : Proceed([Advanced(job, n) EXCEPT !.flags.z = IF job.rt = n THEN TRUE ELSE @])
    BY <1>8 DEF ScanBlock, Raise
  <2> QED
    BY <1>3, <1>4, <2>1, <2>2
<1> QED
  BY <1>5, <1>6, <1>7, <1>8

(* A faulting access leaves the registers, the flags, the memory and the    *)
(* devices as they were, so that its handler may run it again; only the     *)
(* second half of a 64-bit one may find the first half gone through.        *)
THEOREM FaultsAreRestartable == AccessSpec => FaultsLeaveNoTrace
<1>1. MemoryInv /\ BusKnown /\ [AccessAt]_accessVars => MemoryInv' /\ BusKnown'
  BY BusKept, AccessStep
<1>2. MemoryInv /\ BusKnown /\ [AccessAt]_accessVars /\ Faulting => NoTrace
  <2> SUFFICES ASSUME MemoryInv, BusKnown, [AccessAt]_accessVars, Faulting PROVE NoTrace
    OBVIOUS
  <2>1. job' # job
    BY DEF Faulting
  <2>2. ~Nothing
    <3> SUFFICES ASSUME Nothing PROVE FALSE
      OBVIOUS
    <3>1. PICK j : Finish(j) /\ DOMAIN j = Fields
      <4>1. JobForm(job)
        BY DEF MemoryInv, JobGoes
      <4>2. DOMAIN job = Fields /\ \A fl : DOMAIN [job EXCEPT !.flags = fl] = Fields
        BY <4>1 DEF JobForm
      <4> QED
        BY <4>2 DEF Nothing
    <3>2. job'.state = "done"
      BY <3>1 DEF Finish, Fields
    <3> QED
      BY <3>2 DEF Faulting
  <2>3. ~Repair /\ ~Steal
    BY <2>1 DEF Repair, Steal, Faulting
  <2> QED
    BY <2>1, <2>2, <2>3, LoadFaults, StoreFaults, BlockFaults DEF AccessAt, accessVars
<1>3. FaultsLeaveNoTrace <=> [][Faulting => NoTrace]_accessVars
  BY DEF FaultsLeaveNoTrace, Faulting, NoTrace
<1> QED
  BY <1>1, <1>2, <1>3, MemoryBegins, BusBegins, PTL DEF AccessSpec

=============================================================================
