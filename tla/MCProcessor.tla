----------------------------- MODULE MCProcessor -----------------------------
(* What an instruction computes, what an access reaches, and where paging     *)
(* sends it: each behaviour is of one of the three, and the others stand still. *)
EXTENDS Mmu, MCInstructions

(* Two address spaces over two tables, two pages and a TLB of two: pages share  *)
(* tables, directories share tables, and entries are evicted.                   *)
CONSTANTS r0, r1, t0, t1, frameA, frameB

MCRoots == {r0, r1}
MCTables == {t0, t1}
MCDirs == {1, 2}
MCIndices == {0}
MCFrames == {frameA, frameB}

StoredPte(present, behind, writes, runs) ==
  [present |-> present, frame |-> behind, writable |-> writes, executable |-> runs,
   accessed |-> FALSE, dirty |-> FALSE]
MCStores ==
  {StoredPte(FALSE, frameA, FALSE, FALSE), StoredPte(TRUE, frameA, TRUE, FALSE), StoredPte(TRUE, frameB, FALSE, TRUE)}
(* In the second space two pages share a table.                             *)
MCStarts == {[root \in MCRoots |-> IF root = r0 THEN <<t0, t1>> ELSE <<t1, t1>>]}

-----------------------------------------------------------------------------

VARIABLE translates   \* the behaviour is the MMU's

ProcessorVars == <<translates, vars, aluVars, accessVars>>
MmuIdle == Init /\ leaf = [p \in Ptes |-> StoredPte(FALSE, frameA, FALSE, FALSE)]
ProcessorInit ==
  \/ translates = TRUE /\ Init /\ Halted /\ Idle
  \/ translates = FALSE /\ MmuIdle /\ InstructionInit
ProcessorNext ==
  /\ UNCHANGED translates
  /\ \/ translates /\ Next /\ UNCHANGED <<aluVars, accessVars>>
     \/ ~translates /\ InstructionNext /\ UNCHANGED vars
ProcessorSpec == ProcessorInit /\ [][ProcessorNext]_ProcessorVars
=============================================================================
