--------------------------- MODULE ExecutionEngine ---------------------------
(***************************************************************************)
(* The step of the Ceres CPU (libs/vm, ExecutionEngine): how a request is  *)
(* polled and taken, how a dispatch saves the interrupted context on the   *)
(* system stack, what IRET gives back, how HALT sleeps and wakes, and what *)
(* every instruction that moves the stack pointer does to all of it.       *)
(*                                                                         *)
(* Addresses are counted in 32-bit words.  Program text is a handful of    *)
(* addresses, and what runs at each is left open: every instruction is     *)
(* possible at every step.  Of memory, only the words of the system stack  *)
(* at and above sp are kept: a word read from the program's own stack may  *)
(* hold anything, and one that a pop leaves behind is data from then on.   *)
(***************************************************************************)
EXTENDS Integers, Sequences, FiniteSets

CONSTANTS
  PcCount,        \* addresses of text are 1..PcCount; 0 is an unbound vector
  Numbers,        \* the interrupt numbers in use
  Handler,        \* the vector table: number -> address, or 0
  StackFloor,     \* the end of the loaded image (_stackFloor)
  Limits,         \* what a program writes to StackLimit
  SystemFloor,    \* systemStackFloor()
  MemTop,         \* _memory.size()
  MaxWords,       \* bound: words moved by one PUSHM, POPM, ENTER or LEAVE
  MaxRaises,      \* bound: requests raised by devices
  MaxDepth,       \* bound: handlers nested when one pops its own frame
  Balanced,       \* handlers pop what they push before IRET
  UnmappedStack,  \* paging is on and the program's stack page may be absent
  UnbackedCompare \* MCMP may compare two blocks that have nothing behind them

ReservedInterruptCount == 16
Reset == 0
MemoryFault == 3
StackOverflow == 5
PageFault == 7

Pcs == 1 .. PcCount
Flag == {"Interrupt", "Halting"}
SystemStack == SystemFloor .. MemTop - 1
User(n) == n >= ReservedInterruptCount

ASSUME TextAssumption == PcCount \in Nat \ {0}
ASSUME VectorAssumption ==
  /\ Numbers \subseteq 0 .. 63
  /\ {Reset, MemoryFault, StackOverflow, PageFault} \subseteq Numbers
  /\ Handler \in [Numbers -> 0 .. PcCount]
ASSUME StackAssumption ==
  /\ StackFloor \in Nat /\ SystemFloor \in Nat /\ MemTop \in Nat
  /\ StackFloor < SystemFloor /\ SystemFloor + 2 <= MemTop
  /\ Limits \subseteq Nat
ASSUME BoundAssumption ==
  MaxWords \in Nat \ {0} /\ MaxRaises \in Nat /\ MaxDepth \in Nat
ASSUME ScopeAssumption ==
  {Balanced, UnmappedStack, UnbackedCompare} \subseteq BOOLEAN

(* A word of the system stack, and what it was written as.                 *)
Word == [as : {"pc", "flags", "data"}, pc : Pcs, flags : SUBSET Flag]
PcWord(p) == [as |-> "pc", pc |-> p, flags |-> {}]
FlagsWord(f) == [as |-> "flags", pc |-> 1, flags |-> f]
DataWord == [as |-> "data", pc |-> 1, flags |-> {}]

(* The context a dispatch interrupted; `own` counts the words that level   *)
(* had pushed above its frame.  Both are history: the machine has only the *)
(* words on its stack.                                                     *)
Context == [pc : Pcs, flags : SUBSET Flag, sp : Nat, own : Int]

Machine ==
  [pc : Pcs, flags : SUBSET Flag, sp : Nat, limit : Nat, depth : Nat,
   saved : Nat, shadow : BOOLEAN, stopped : BOOLEAN, faulted : BOOLEAN,
   stack : [SystemStack -> Word], ctx : Seq(Context), own : Int]

VARIABLES
  cpu,       \* the engine's registers and flags, and the system stack
  pending,   \* InterruptController::_pending
  raises,    \* InterruptController::_raises
  consumed,  \* _raisesConsumed
  phase,     \* where in step() the CPU is
  shadowed,  \* step()'s local copy of the interrupt shadow
  seen,      \* step()'s raisesSeen
  since,     \* history: raised since the last wake and not taken
  late,      \* history: raised since step() read raisesSeen
  afterSti   \* history: the instruction that retired last was an STI

vars == <<cpu, pending, raises, consumed, phase, shadowed, seen, since, late, afterSti>>

TypeOK ==
  /\ cpu \in Machine
  /\ pending \subseteq Numbers /\ since \subseteq Numbers /\ late \subseteq Numbers
  /\ raises \in 0 .. MaxRaises /\ consumed \in 0 .. MaxRaises /\ seen \in 0 .. MaxRaises
  /\ phase \in {"poll", "deliver", "wake", "run", "halted"}
  /\ shadowed \in BOOLEAN /\ afterSti \in BOOLEAN

-----------------------------------------------------------------------------
(* The stack.                                                              *)

(* Mutant: a handler's pushes are held to the program's limit.             *)
HasStackRoomMutant(m, words) == m.sp >= m.limit + words

HasStackRoom(m, words) == m.sp >= (IF m.depth > 0 THEN SystemFloor ELSE m.limit) + words
HasStackData(m, words) == m.sp + words <= (IF m.depth > 0 THEN MemTop ELSE SystemFloor)

(* Counted for handlers that keep their pushes and pops balanced.          *)
Owned(m, words) == IF m.depth > 0 /\ Balanced THEN m.own + words ELSE m.own

(* push<T> past its check: the word is written below sp, and sp comes back *)
(* when the instruction has already faulted.                               *)
PutWord(m, w) ==
  [m EXCEPT !.stack = [a \in SystemStack |-> IF a = m.sp - 1 THEN w ELSE @[a]],
            !.sp = IF m.faulted THEN @ ELSE @ - 1]

(* The words an instruction pushes, the first of them holding w.           *)
PutWords(m, words, w) ==
  [m EXCEPT !.stack = [a \in SystemStack |->
                         IF a = m.sp - 1 THEN w
                         ELSE IF a \in m.sp - words .. m.sp - 2 THEN DataWord ELSE @[a]],
            !.sp = @ - words,
            !.own = Owned(m, words)]

(* What pops leave behind.                                                 *)
Drop(m, words) ==
  [m EXCEPT !.stack = [a \in SystemStack |-> IF a \in m.sp .. m.sp + words - 1 THEN DataWord ELSE @[a]],
            !.sp = @ + words,
            !.own = Owned(m, -words)]

PcsAtTop(m) == IF m.sp \in SystemStack THEN {m.stack[m.sp].pc} ELSE Pcs
FlagsAtTop(m) == IF m.sp \in SystemStack THEN {m.stack[m.sp].flags} ELSE SUBSET Flag

-----------------------------------------------------------------------------
(* Interrupt dispatch and return.                                          *)

Accepts(m, n) == ("Interrupt" \in m.flags \/ ~User(n)) /\ Handler[n] # 0

Switch(m) ==
  IF m.depth = 0 THEN [m EXCEPT !.depth = 1, !.saved = m.sp, !.sp = MemTop]
                 ELSE [m EXCEPT !.depth = @ + 1]

LeaveOnSystemStackMutant(m) == IF m.depth = 0 THEN m ELSE [m EXCEPT !.depth = @ - 1]

LeaveInterrupt(m) ==
  CASE m.depth = 0 -> m
    [] m.depth = 1 -> [m EXCEPT !.depth = 0, !.sp = m.saved]
    [] OTHER       -> [m EXCEPT !.depth = @ - 1]

SavedFlags(m) == m.flags \ {"Halting"}

(* Mutant: the two words are pushed in the other order.                    *)
SaveFrameMutant(m) == PutWord(PutWord(Switch(m), PcWord(m.pc)), FlagsWord(SavedFlags(m)))

SaveFrame(m) == PutWord(PutWord(Switch(m), FlagsWord(SavedFlags(m))), PcWord(m.pc))

EnterHandler(m, n) ==
  [SaveFrame(m) EXCEPT
     !.flags = m.flags \ {"Interrupt", "Halting"},
     !.pc = Handler[n],
     !.faulted = TRUE,
     !.ctx = Append(m.ctx, [pc |-> m.pc, flags |-> SavedFlags(m), sp |-> m.sp, own |-> m.own]),
     !.own = 0]

(* No stack left to say what happened on: the machine stops for good.      *)
StopForGood(m) ==
  LeaveInterrupt([Switch(m) EXCEPT !.flags = m.flags \cup {"Halting"}, !.stopped = TRUE])

Fits(m) == HasStackRoom(Switch(m), 2)

TriggerInterrupt(m, n) ==
  IF ~Accepts(m, n) THEN m
  ELSE IF Fits(m) THEN EnterHandler(m, n) ELSE StopForGood(m)

Entered(m, n) == Accepts(m, n) /\ Fits(m)

(* The end of IRET, after both pops.                                       *)
Resume(m, p, f) ==
  LET back == LeaveInterrupt([m EXCEPT !.pc = p, !.flags = f])
  IN  IF m.depth = 0 THEN back
      ELSE [back EXCEPT
              !.stack = IF m.depth = 1 THEN [a \in SystemStack |-> DataWord] ELSE @,
              !.ctx = SubSeq(m.ctx, 1, m.depth - 1),
              !.own = m.ctx[m.depth].own]

AdvancePC(m) == IF m.faulted THEN m ELSE [m EXCEPT !.pc = (m.pc % PcCount) + 1]

-----------------------------------------------------------------------------
Init ==
  /\ cpu = [pc |-> 1, flags |-> {}, sp |-> SystemFloor, limit |-> StackFloor, depth |-> 0,
            saved |-> 0, shadow |-> FALSE, stopped |-> FALSE, faulted |-> FALSE,
            stack |-> [a \in SystemStack |-> DataWord], ctx |-> << >>, own |-> 0]
  /\ pending = {} /\ since = {} /\ late = {}
  /\ raises = 0 /\ consumed = 0 /\ seen = 0
  /\ phase = "poll"
  /\ shadowed = FALSE /\ afterSti = FALSE

(* A device raises a request: from an event its scheduler runs, from a     *)
(* register access, from input being injected, or from a thread of its own.*)
Raise(n) ==
  /\ User(n) /\ raises < MaxRaises
  /\ pending' = pending \cup {n}
  /\ raises' = raises + 1
  /\ since' = since \cup {n}
  /\ late' = late \cup {n}
  /\ UNCHANGED <<cpu, consumed, phase, shadowed, seen, afterSti>>

(* The head of step(): the shadow is spent and the raises are counted      *)
(* before the requests are looked at.                                      *)
(* Mutant: the shadow is cleared before it is looked at.                   *)
PollMutant ==
  /\ phase = "poll"
  /\ phase' = "deliver"
  /\ shadowed' = FALSE
  /\ cpu' = [cpu EXCEPT !.shadow = FALSE]
  /\ seen' = raises
  /\ late' = {}
  /\ UNCHANGED <<pending, raises, consumed, since, afterSti>>

Poll ==
  /\ phase = "poll"
  /\ phase' = "deliver"
  /\ shadowed' = cpu.shadow
  /\ cpu' = [cpu EXCEPT !.shadow = FALSE]
  /\ seen' = raises
  /\ late' = {}
  /\ UNCHANGED <<pending, raises, consumed, since, afterSti>>

Lowest(n) == n \in pending /\ \A p \in pending : n <= p
Deliverable(n) == ("Interrupt" \in cpu.flags /\ ~shadowed) \/ ~User(n)

(* The lowest pending request is taken off the controller and dispatched;  *)
(* entering its handler is the wake-up, a request nobody handles is not.   *)
Deliver(n) ==
  /\ phase = "deliver" /\ Lowest(n) /\ Deliverable(n)
  /\ pending' = pending \ {n}
  /\ cpu' = TriggerInterrupt(cpu, n)
  /\ IF Entered(cpu, n) THEN consumed' = seen /\ since' = late \ {n}
                        ELSE UNCHANGED <<consumed, since>>
  /\ phase' = "wake"
  /\ UNCHANGED <<raises, shadowed, seen, late, afterSti>>

NothingToDeliver ==
  /\ phase = "deliver" /\ \A n \in pending : Lowest(n) => ~Deliverable(n)
  /\ phase' = "wake"
  /\ UNCHANGED <<cpu, pending, raises, consumed, shadowed, seen, since, late, afterSti>>

Awake ==
  /\ phase = "wake" /\ "Halting" \notin cpu.flags
  /\ phase' = "run"
  /\ UNCHANGED <<cpu, pending, raises, consumed, shadowed, seen, since, late, afterSti>>

(* Mutant: the wake-up consumes raises nobody has looked at.                *)
WakeEatsMutant ==
  /\ phase = "wake" /\ "Halting" \in cpu.flags
  /\ seen # consumed /\ ~cpu.stopped
  /\ consumed' = raises
  /\ since' = late
  /\ cpu' = [cpu EXCEPT !.flags = @ \ {"Halting"}]
  /\ phase' = "run"
  /\ UNCHANGED <<pending, raises, shadowed, seen, late, afterSti>>

Wake ==
  /\ phase = "wake" /\ "Halting" \in cpu.flags
  /\ seen # consumed /\ ~cpu.stopped
  /\ consumed' = seen
  /\ since' = late
  /\ cpu' = [cpu EXCEPT !.flags = @ \ {"Halting"}]
  /\ phase' = "run"
  /\ UNCHANGED <<pending, raises, shadowed, seen, late, afterSti>>

HaltedStep ==
  /\ phase = "wake" /\ "Halting" \in cpu.flags
  /\ seen = consumed \/ cpu.stopped
  /\ phase' = "halted"
  /\ UNCHANGED <<cpu, pending, raises, consumed, shadowed, seen, since, late, afterSti>>

(* Mutant: only a request that can be taken ends the sleep.                *)
WokenByRaiseMutant ==
  /\ phase = "halted" /\ raises # seen /\ "Interrupt" \in cpu.flags
  /\ phase' = "poll"
  /\ UNCHANGED <<cpu, pending, raises, consumed, shadowed, seen, since, late, afterSti>>

(* waitForRaise returns because something was raised since the look ...    *)
WokenByRaise ==
  /\ phase = "halted" /\ raises # seen
  /\ phase' = "poll"
  /\ UNCHANGED <<cpu, pending, raises, consumed, shadowed, seen, since, late, afterSti>>

(* ... or for a poke, its deadline, or a device event that raised nothing. *)
WaitEnds ==
  /\ phase = "halted"
  /\ phase' = "poll"
  /\ UNCHANGED <<cpu, pending, raises, consumed, shadowed, seen, since, late, afterSti>>

-----------------------------------------------------------------------------
(* Instructions.  Each starts with _faulted cleared and ends the step.     *)

Fetched == [cpu EXCEPT !.faulted = FALSE]

Retire(m) ==
  /\ phase = "run"
  /\ cpu' = m
  /\ phase' = "poll"
  /\ afterSti' = FALSE
  /\ UNCHANGED <<pending, raises, consumed, shadowed, seen, since, late>>

Jump(t) == Retire([Fetched EXCEPT !.pc = t])
Cli == Retire(AdvancePC([Fetched EXCEPT !.flags = @ \ {"Interrupt"}]))

Sti ==
  /\ phase = "run"
  /\ cpu' = AdvancePC([Fetched EXCEPT !.flags = @ \cup {"Interrupt"}, !.shadow = TRUE])
  /\ phase' = "poll"
  /\ afterSti' = TRUE
  /\ UNCHANGED <<pending, raises, consumed, shadowed, seen, since, late>>

(* HALT with a request raised since the last wake spends it and goes on.   *)
HaltSleeps ==
  /\ raises = consumed
  /\ Retire(AdvancePC([Fetched EXCEPT !.flags = @ \cup {"Halting"}]))

HaltGoesOn ==
  /\ phase = "run" /\ raises # consumed
  /\ consumed' = raises
  /\ since' = {}
  /\ cpu' = AdvancePC(Fetched)
  /\ phase' = "poll"
  /\ afterSti' = FALSE
  /\ UNCHANGED <<pending, raises, shadowed, seen, late>>

(* TRAP, INT and a division by zero that faults: pc is past them.          *)
Software(n) == Retire(TriggerInterrupt(AdvancePC(Fetched), n))

(* A fault leaves pc at the instruction.                                   *)
Fault(n) == ~User(n) /\ Retire(TriggerInterrupt(Fetched, n))

(* RESET dispatches vector 0 like any other fault.                         *)
ResetInstruction == Retire(TriggerInterrupt(Fetched, Reset))

SetProgramStackLimit(l) ==
  Retire(AdvancePC([Fetched EXCEPT !.limit = IF l > StackFloor THEN l ELSE StackFloor]))

(* The program moves its stack pointer within its own stack.               *)
MoveSp(v) == cpu.depth = 0 /\ Retire(AdvancePC([Fetched EXCEPT !.sp = v]))

(* PUSH, PUSHM, FPUSH, FPUSHM, PUSHF and ENTER, whose frame is whatever    *)
(* the stack held.                                                         *)
Push(words, w) ==
  /\ HasStackRoom(cpu, words)
  /\ Retire(AdvancePC(PutWords(Fetched, words, w)))

Call(t) ==
  /\ HasStackRoom(cpu, 1)
  /\ Retire([PutWords(Fetched, 1, PcWord(AdvancePC(Fetched).pc)) EXCEPT !.pc = t])

PushOverflows(words) ==
  /\ ~HasStackRoom(cpu, words)
  /\ Retire(TriggerInterrupt(Fetched, StackOverflow))

(* A handler takes back its own words, or, undisciplined, eats its frame.  *)
MayPop(words) ==
  \/ cpu.depth = 0
  \/ Balanced /\ cpu.own >= words
  \/ ~Balanced /\ cpu.depth < MaxDepth

(* POP, POPM, FPOP, FPOPM and LEAVE.                                       *)
Pop(words) ==
  /\ HasStackData(cpu, words) /\ MayPop(words)
  /\ Retire(AdvancePC(Drop(Fetched, words)))

PopFlags ==
  /\ HasStackData(cpu, 1) /\ MayPop(1)
  /\ \E f \in FlagsAtTop(cpu) : Retire(AdvancePC([Drop(Fetched, 1) EXCEPT !.flags = f]))

Return ==
  /\ HasStackData(cpu, 1) /\ MayPop(1)
  /\ \E p \in PcsAtTop(cpu) : Retire([Drop(Fetched, 1) EXCEPT !.pc = p])

PopUnderflows(words) ==
  /\ ~HasStackData(cpu, words)
  /\ Retire(TriggerInterrupt(Fetched, StackOverflow))

MayReturn == cpu.depth = 0 \/ cpu.own = 0

Iret ==
  /\ HasStackData(cpu, 2) /\ MayReturn
  /\ \E p \in PcsAtTop(cpu), f \in FlagsAtTop([cpu EXCEPT !.sp = @ + 1]) :
       Retire(Resume(Drop(Fetched, 2), p, f))

(* IRET takes its words one at a time: the first is gone when the second   *)
(* is missing.                                                             *)
IretUnderflows ==
  /\ ~HasStackData(cpu, 2)
  /\ Retire(TriggerInterrupt(IF HasStackData(cpu, 1) THEN Drop(Fetched, 1) ELSE Fetched, StackOverflow))

(* A PUSH whose write page-faults: sp is lowered, the fault dispatched, and *)
(* sp put back.  The system stack is never translated.                     *)
PushPageFaults ==
  /\ UnmappedStack /\ cpu.depth = 0 /\ HasStackRoom(cpu, 1)
  /\ Entered([Fetched EXCEPT !.sp = @ - 1], PageFault)
  /\ Retire([TriggerInterrupt([Fetched EXCEPT !.sp = @ - 1], PageFault) EXCEPT !.sp = cpu.sp])

(* MCMP, a byte at a time, reads both sides before it looks for a fault.   *)
CompareFaultsTwice ==
  /\ UnbackedCompare
  /\ Retire(TriggerInterrupt(TriggerInterrupt(Fetched, MemoryFault), MemoryFault))

StackInstruction ==
  \/ \E k \in 1 .. MaxWords : Push(k, DataWord) \/ PushOverflows(k) \/ Pop(k) \/ PopUnderflows(k)
  \/ Push(1, FlagsWord(cpu.flags)) \/ PopFlags
  \/ \E t \in Pcs : Call(t)
  \/ Return
  \/ Iret \/ IretUnderflows
  \/ PushPageFaults \/ CompareFaultsTwice
  \/ \E v \in StackFloor .. SystemFloor : MoveSp(v)
  \/ \E l \in Limits : SetProgramStackLimit(l)

ControlInstruction ==
  \/ \E t \in Pcs : Jump(t)
  \/ Cli \/ Sti \/ HaltSleeps \/ HaltGoesOn
  \/ \E n \in Numbers : Software(n) \/ Fault(n)
  \/ ResetInstruction

(* What step() does by itself, whatever the program is.                    *)
EngineStep ==
  \/ Poll \/ (\E n \in Numbers : Deliver(n)) \/ NothingToDeliver
  \/ Awake \/ Wake \/ HaltedStep \/ WokenByRaise

Next ==
  \/ \E n \in Numbers : Raise(n)
  \/ EngineStep
  \/ WaitEnds
  \/ StackInstruction
  \/ ControlInstruction

Spec == Init /\ [][Next]_vars

(* The loop around step() keeps calling it; how long a wait with nothing   *)
(* raised lasts, and what the program does, is nobody's promise.           *)
FairSpec == Spec /\ WF_vars(EngineStep)

-----------------------------------------------------------------------------
(* Properties.                                                             *)

(* The pc word of the frame of the k-th handler in progress.               *)
FrameAt(m, k) == (IF k = 1 THEN MemTop ELSE m.ctx[k].sp) - 2

(* A handler runs on the system stack and the program on its own, whatever *)
(* either pushes, pops or faults on: triggerInterrupt's switch to the top  *)
(* of memory and leaveInterrupt's switch back are never out of step.       *)
StackSeparation ==
  IF cpu.depth = 0 THEN cpu.sp \in StackFloor .. SystemFloor
                   ELSE cpu.sp \in SystemFloor .. MemTop

(* Every interrupt in progress has its two words on the system stack: the  *)
(* flags and, below them, the pc that triggerInterrupt saved.  No later    *)
(* push, nested dispatch or failed dispatch overwrites them, and sp stands *)
(* as far below the innermost frame as that handler's own words.           *)
FramesOn(m) ==
  /\ Len(m.ctx) = m.depth
  /\ m.depth > 0 => m.sp = FrameAt(m, m.depth) - m.own
  /\ \A k \in 1 .. m.depth :
       /\ {FrameAt(m, k), FrameAt(m, k) + 1} \subseteq SystemStack
       /\ m.stack[FrameAt(m, k)] = PcWord(m.ctx[k].pc)
       /\ m.stack[FrameAt(m, k) + 1] = FlagsWord(m.ctx[k].flags)

FramesIntact == FramesOn(cpu)

(* IRET gives back the context its handler interrupted: the pc, the flags  *)
(* without Halting, the stack pointer.                                     *)
IretResumes ==
  [][Len(cpu'.ctx) < Len(cpu.ctx) =>
       LET c == cpu.ctx[Len(cpu.ctx)]
       IN  /\ cpu'.pc = c.pc /\ cpu'.flags = c.flags /\ cpu'.sp = c.sp
           /\ cpu'.depth = Len(cpu.ctx) - 1]_vars

(* Whatever a handler did to the system stack, the program gets back the   *)
(* stack pointer it was interrupted with.                                  *)
ProgramStackRestored ==
  [][cpu.depth > 0 /\ cpu'.depth = 0 => cpu'.sp = cpu.ctx[1].sp]_vars

(* A machine stopped for want of stack (_stoppedForGood) runs no           *)
(* instruction and enters no handler again, whatever is raised.            *)
StoppedIsFinal ==
  [][cpu.stopped =>
       /\ cpu'.stopped /\ phase' # "run"
       /\ cpu'.pc = cpu.pc /\ cpu'.sp = cpu.sp /\ cpu'.depth = cpu.depth]_vars

(* The instruction after an STI runs before a device's request is taken,   *)
(* which is what makes "sti; halt" one step.                               *)
StiHoldsOneInstruction ==
  [][afterSti => \A n \in pending \ pending' : ~User(n)]_vars

(* A request raised since the machine last woke, and not taken, keeps the  *)
(* next HALT from sleeping: no wake-up is lost between a program's look at *)
(* a device and its HALT (_raisesConsumed).                                *)
NoRaiseLost == since # {} => raises # consumed

(* A machine halted with a request raised since its last wake goes on,     *)
(* without any deadline having to expire: the raise is seen before the     *)
(* sleep or ends it.                                                       *)
RaiseEndsHalt ==
  ("Halting" \in cpu.flags /\ raises # consumed) ~> ("Halting" \notin cpu.flags \/ cpu.stopped)
=============================================================================
