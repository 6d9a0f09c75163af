---------------------------- MODULE DebugSession ----------------------------
(***************************************************************************)
(* The debug session and its history (libs/debug): the step loop around a  *)
(* machine, breakpoints and watches, the reconstructed call stack, and     *)
(* going back by restoring a snapshot and running forward again.           *)
(*                                                                         *)
(* The machine is what the session can tell apart of it: the count of      *)
(* instructions retired (the tick), the cycle clock with one device event, *)
(* the pc, the two stacks, what was typed and what the program read.  Its  *)
(* program is a constant: each pc has an operation, a target, a line and   *)
(* whether it is the first of that line.                                   *)
(***************************************************************************)
EXTENDS Integers, Sequences, FiniteSets, SequencesExt

CONSTANTS
  Listing,             \* pc -> [op, to, line, head]
  Handler,          \* the pc of the handler of device interrupts
  FaultHandler,     \* and of faults
  Room,             \* words the program's stack has room for
  EventAt,          \* the cycle a device event is due at, 0 for none
  Interval,         \* History::Settings: instructions between snapshots
  MaxSnapshots,     \* and how many are kept
  DefaultStepLimit, \* instructions a run may take
  StepLineLimit,    \* and a step of a line
  NoBreakpoint

ASSUME SessionAssumption ==
  /\ Interval \in Nat \ {0} /\ MaxSnapshots \in Nat \ {0}
  /\ DefaultStepLimit \in Nat /\ StepLineLimit \in Nat
  /\ Handler \in Nat /\ FaultHandler \in Nat /\ Room \in Nat
  /\ \A pc \in DOMAIN Listing : Listing[pc].to \in Nat

Pcs == DOMAIN Listing
NoTick == -1

VARIABLES
  mach,       \* the machine
  callStack,  \* the reconstructed frames, outermost first
  snaps,      \* the history's snapshots, oldest first
  stacks,     \* the call stacks kept alongside them
  typed,     \* what was typed: [tick, text]
  bps,        \* pc -> a breakpoint's options, or NoBreakpoint
  hits,       \* pc -> its hit count
  touched,    \* the watched word was accessed since it was last looked at
  started,    \* the session was started
  pauseRequested,
  cmd,        \* the command in progress
  stop,       \* the reason of the last stop
  past,       \* (history) the machine and the frames when each tick was first reached
  faithful    \* (history) the program counter was not edited, and no snapshot of a handler was restored


sessionVars == <<mach, callStack, snaps, stacks, typed, bps, hits, touched, started,
                 pauseRequested, cmd, stop, past, faithful>>

(* The first instruction is the first of the sequence.                      *)
FreshMachine ==
  [tick |-> 0, clock |-> 0, due |-> EventAt, pc |-> 1, stack |-> <<>>, under |-> <<>>, onSystem |-> FALSE,
   saved |-> 0, depth |-> 0, enabled |-> TRUE, halted |-> FALSE, raised |-> FALSE, pending |-> FALSE,
   input |-> <<>>, got |-> <<>>, on |-> TRUE]

-----------------------------------------------------------------------------
(* The machine's step, as the session sees it                               *)

Top(s) == IF s = <<>> THEN 1 ELSE s[Len(s)]

(* An address on the stacks: both grow down, the system's from the top.     *)
Sp(m) == (IF m.onSystem THEN 2 * Room + 2 ELSE Room) - Len(m.stack)

Raise(m) == [m EXCEPT !.pending = TRUE, !.raised = TRUE]

Serviced(m) == IF m.due # 0 /\ m.clock >= m.due THEN Raise([m EXCEPT !.due = 0]) ELSE m

(* The outermost interrupt switches to the system stack.                    *)
Enter(m, handler) ==
  LET outer == m.depth = 0
  IN  [m EXCEPT !.enabled = FALSE, !.halted = FALSE, !.pc = handler, !.depth = m.depth + 1,
                !.saved = IF outer THEN Len(m.stack) ELSE m.saved,
                !.under = IF outer THEN m.stack ELSE m.under,
                !.onSystem = m.onSystem \/ outer,
                !.stack = IF outer THEN <<m.pc>> ELSE Append(m.stack, m.pc)]

(* IRET: the matching return of the outermost one puts the saved stack      *)
(* pointer back, over whatever the memory there holds.                      *)
Leave(m) ==
  LET back == [m EXCEPT !.pc = Top(m.stack), !.stack = Front(m.stack), !.enabled = m.depth <= 1]
  IN  CASE m.depth = 1 -> [back EXCEPT !.depth = 0, !.onSystem = FALSE, !.under = <<>>, !.saved = 0,
             !.stack = [i \in 1..m.saved |-> IF i \in DOMAIN m.under THEN m.under[i] ELSE 1]]
        [] m.depth > 1 -> [back EXCEPT !.depth = m.depth - 1]
        [] OTHER -> back

Retired(m) == [m EXCEPT !.tick = m.tick + 1, !.clock = m.clock + 1]

ExecuteAt(m) ==
  LET here == Listing[m.pc]
      on == [m EXCEPT !.pc = m.pc + 1]
  IN  CASE here.op = "call" -> IF Len(m.stack) < Room
                               THEN [m EXCEPT !.pc = here.to, !.stack = Append(m.stack, m.pc + 1)] ELSE on
        [] here.op = "ret" -> [m EXCEPT !.pc = Top(m.stack), !.stack = Front(m.stack)]
        [] here.op = "drop" -> [on EXCEPT !.stack = Front(m.stack)]
        [] here.op = "iret" -> Leave(m)
        [] here.op = "read" -> IF m.input = <<>> THEN [on EXCEPT !.got = Append(m.got, "nothing")]
                               ELSE [on EXCEPT !.got = Append(m.got, Head(m.input)), !.input = Tail(m.input)]
        [] here.op = "halt" -> IF m.raised THEN [on EXCEPT !.raised = FALSE] ELSE [on EXCEPT !.halted = TRUE]
        [] here.op = "fault" -> Enter(m, FaultHandler)
        [] here.op = "off" -> [m EXCEPT !.on = FALSE]
        [] OTHER -> on

(* Events that are due come first, then a request that is let through.  A   *)
(* machine that halted waits on unless something was raised.                *)
LetThrough(m) == m.pending /\ m.enabled
Delivered(m) ==
  LET s == Serviced(m)
  IN  IF LetThrough(s) THEN [Enter(s, Handler) EXCEPT !.pending = FALSE, !.raised = FALSE] ELSE s
Waits(m) == Delivered(m).halted /\ ~Delivered(m).raised

(* One ExecutionEngine::step: due events, delivery, then an instruction -   *)
(* the handler's first, when an interrupt was delivered - or a halted wait. *)
Step(m) ==
  LET s == Serviced(m)
      d == Delivered(m)
      awake == IF d.halted THEN [d EXCEPT !.halted = FALSE, !.raised = FALSE] ELSE d
      op == Listing[d.pc].op
  IN  IF Waits(m)
      THEN [m |-> IF d.due = 0 THEN d ELSE Raise([d EXCEPT !.clock = d.due, !.due = 0]),
            entered |-> FALSE, at |-> 0, fault |-> FALSE, accessed |-> FALSE, broke |-> FALSE]
      ELSE [m |-> Retired(ExecuteAt(awake)), entered |-> LetThrough(s) \/ op = "fault",
            at |-> IF op = "fault" THEN d.pc ELSE s.pc, fault |-> op = "fault",
            accessed |-> op = "store", broke |-> op = "break"]

(* Nothing will ever wake it.                                               *)
Asleep(m) == m.halted /\ ~m.pending /\ m.due = 0

-----------------------------------------------------------------------------
(* The reconstructed call stack                                             *)

Frame(ret, m) == [ret |-> ret, sp |-> Sp(m)]
ResetCallStack(m) == <<Frame(0, m)>>

(* Mutant: a frame at the machine's own stack pointer goes too.             *)
UnwoundMutant(frames, sp) ==
  LET left == {i \in 2..Len(frames) : \A j \in i..Len(frames) : frames[j].sp <= sp}
  IN  IF left = {} THEN frames ELSE SubSeq(frames, 1, (CHOOSE i \in left : \A j \in left : i <= j) - 1)

(* Frames whose own stack pointer the machine has moved above are gone.     *)
Unwound(frames, sp) ==
  LET left == {i \in 2..Len(frames) : \A j \in i..Len(frames) : frames[j].sp < sp}
  IN  IF left = {} THEN frames ELSE SubSeq(frames, 1, (CHOOSE i \in left : \A j \in left : i <= j) - 1)

UpdateCallStack(frames, m, s) ==
  IF s.entered THEN Append(frames, Frame(s.at, s.m))
  ELSE IF m.halted THEN frames
  ELSE CASE Listing[m.pc].op = "call" -> IF s.m.pc = m.pc + 1 THEN frames ELSE Append(frames, Frame(m.pc + 1, s.m))
         [] Listing[m.pc].op \in {"ret", "iret"} -> IF Len(frames) > 1 THEN Front(frames) ELSE frames
         [] OTHER -> Unwound(frames, Sp(s.m))

-----------------------------------------------------------------------------
(* The history                                                              *)

(* A snapshot keeps the machine but for what the engine keeps to itself:    *)
(* its interrupt depth, the stack pointer it saved, and the power.          *)
SnapshotDue(tick) == snaps = <<>> \/ tick >= snaps[Len(snaps)].tick + Interval
Kept(seq) == IF Len(seq) > MaxSnapshots THEN Tail(seq) ELSE seq

OldestTick == snaps[1].tick
Nearest(tick) == LET at == {i \in 1..Len(snaps) : snaps[i].tick <= tick}
                 IN  CHOOSE i \in at : \A j \in at : j <= i

(* Mutant: the events of the devices are not put back.                      *)
MachineRestoredMutant(m, snap) == [snap EXCEPT !.depth = m.depth, !.saved = m.saved, !.on = m.on, !.due = m.due]

MachineRestored(m, snap) == [snap EXCEPT !.depth = m.depth, !.saved = m.saved, !.on = m.on]

InputsBetween(from, to) == {i \in DOMAIN typed : typed[i].tick >= from /\ typed[i].tick < to}
Typed(m, text) == Raise([m EXCEPT !.input = Append(m.input, text)])
Texts(which) == LET inOrder == SetToSortSeq(which, <) IN [j \in DOMAIN inOrder |-> typed[inOrder[j]].text]
AllTyped(m, which) == IF which = {} THEN m ELSE Raise([m EXCEPT !.input = @ \o Texts(which)])

-----------------------------------------------------------------------------
(* stepOnce: a snapshot if one is due, the step, the call stack             *)

Idle == [mode |-> "none"]
Replaying == cmd.mode \in {"replay", "scan"}

StepOnce(s) ==
  LET frames == UpdateCallStack(callStack, mach, s)
      due == ~Replaying /\ SnapshotDue(mach.tick)
      new == s.m.tick = Len(past)
  IN  /\ mach' = s.m
      /\ callStack' = frames
      /\ snaps' = IF due THEN Kept(Append(snaps, mach)) ELSE snaps
      /\ stacks' = IF due THEN Kept(Append(stacks, [tick |-> mach.tick, frames |-> callStack])) ELSE stacks
      /\ past' = IF new THEN Append(past, [m |-> s.m, frames |-> frames]) ELSE past

(* Where a breakpoint stands, and whether it holds the machine: first the   *)
(* condition, then the count of hits, then the message.                     *)
Set(pc) == pc \in Pcs /\ bps[pc] # NoBreakpoint
HitCounted(pc) == Set(pc) /\ bps[pc].condition # "false"

ShouldStopAt(pc) ==
  /\ HitCounted(pc)
  /\ bps[pc].condition = "bad" \/ (hits[pc] + 1 >= bps[pc].from /\ ~bps[pc].log)
HitsAt(pc) == IF HitCounted(pc) THEN [hits EXCEPT ![pc] = @ + 1] ELSE hits

(* The goal a step of a line, over a call or out of one runs for.           *)
NewLine(pc) == Listing[pc].head /\ Listing[pc].line # cmd.line
GoalMet(pc, depth) ==
  CASE cmd.goal = "in" -> depth < cmd.depth \/ NewLine(pc)
    [] cmd.goal = "over" -> depth < cmd.depth \/ (depth = cmd.depth /\ NewLine(pc))
    [] cmd.goal = "out" -> depth < cmd.depth
    [] cmd.goal = "to" -> pc = cmd.to
    [] OTHER -> FALSE

(* What stops the machine after a step, in the order runUntil asks.         *)
Interrupted(s) == ~s.m.on \/ s.fault \/ s.broke
Reason(s) ==
  IF ~s.m.on THEN "exited" ELSE IF s.fault THEN "exception" ELSE IF s.broke THEN "breakpoint"
  ELSE IF pauseRequested THEN "pause" ELSE IF touched \/ s.accessed THEN "data"
  ELSE IF ShouldStopAt(s.m.pc) THEN "breakpoint"
  ELSE IF GoalMet(s.m.pc, Len(UpdateCallStack(callStack, mach, s))) THEN "step" ELSE "none"

Stopped(reason) == stop' = reason /\ cmd' = Idle

(* runUntil: one turn of its loop.                                          *)
RunUntil ==
  /\ cmd.mode = "run"
  /\ UNCHANGED <<typed, bps, started, faithful>>
  /\ IF cmd.left = 0 \/ Asleep(mach) \/ ~mach.on
     THEN /\ Stopped(IF cmd.left = 0 THEN "limit" ELSE IF Asleep(mach) THEN "halted" ELSE "exited")
          /\ UNCHANGED <<mach, callStack, snaps, stacks, hits, touched, pauseRequested, past>>
     ELSE LET s == Step(mach)
              reason == Reason(s)
          IN  /\ StepOnce(s)
              /\ pauseRequested' = (pauseRequested /\ Interrupted(s))
              /\ touched' = (reason # "data" /\ (touched \/ s.accessed))
              /\ hits' = IF reason \in {"step", "none"} \/ (reason = "breakpoint" /\ ~s.broke)
                         THEN HitsAt(s.m.pc) ELSE hits
              /\ IF reason = "none" THEN cmd' = [cmd EXCEPT !.left = @ - 1, !.first = FALSE] /\ UNCHANGED stop
                 ELSE Stopped(reason)

(* A step or a run starts: what was asked before it is forgotten.           *)
Running(goal, limit, to, m, depth) ==
  [mode |-> "run", goal |-> goal, left |-> limit, first |-> TRUE, to |-> to, line |-> Listing[m.pc].line, depth |-> depth]

Run(goal, limit, to) ==
  /\ cmd' = Running(goal, limit, to, mach, Len(callStack))
  /\ pauseRequested' = FALSE
  /\ UNCHANGED <<mach, callStack, snaps, stacks, typed, bps, hits, touched, started, stop, past, faithful>>

Resume == Run("none", DefaultStepLimit, 0)
StepLine == Run("in", StepLineLimit, 0)
StepOver == Run("over", StepLineLimit, 0)
StepOut == IF Len(callStack) <= 1 THEN Resume ELSE Run("out", DefaultStepLimit, 0)
RunToAddress(pc) == Run("to", DefaultStepLimit, pc)

(* One instruction: the breakpoint it lands on counts, a watch does not.    *)
StepInstruction ==
  LET s == Step(mach)
      landed == ~Interrupted(s)
  IN  /\ IF mach.on THEN StepOnce(s) ELSE UNCHANGED <<mach, callStack, snaps, stacks, past>>
      /\ touched' = (touched \/ (mach.on /\ s.accessed))
      /\ hits' = IF mach.on /\ landed THEN HitsAt(s.m.pc) ELSE hits
      /\ stop' = CASE ~mach.on \/ ~s.m.on -> "exited"
                   [] s.fault -> "exception"
                   [] s.broke \/ (landed /\ ShouldStopAt(s.m.pc)) -> "breakpoint"
                   [] OTHER -> "step"
      /\ UNCHANGED <<typed, bps, started, pauseRequested, cmd, faithful>>

-----------------------------------------------------------------------------
(* Going back                                                               *)

(* replayTo, up to its loop: the snapshot, the call stack kept with it, and *)
(* every input of the stretch ahead.                                        *)
ReplayTo(tick, next) ==
  LET snap == snaps[Nearest(tick)]
      back == AllTyped(MachineRestored(mach, snap), InputsBetween(snap.tick, tick))
      kept == {i \in 1..Len(stacks) : stacks[i].tick = snap.tick}
  IN  /\ mach' = back
      /\ callStack' = IF kept = {} THEN ResetCallStack(back)
                      ELSE stacks[CHOOSE i \in kept : \A j \in kept : i <= j].frames
      /\ cmd' = [next EXCEPT !.mode = "replay", !.tick = tick]
      /\ faithful' = (faithful /\ mach.depth = 0 /\ snap.depth = 0)

Going(next, back) == [mode |-> "replay", tick |-> 0, next |-> next, back |-> back, found |-> NoTick, line |-> 0]

Error == /\ stop' = "error"
         /\ cmd' = Idle
         /\ UNCHANGED <<mach, callStack, snaps, stacks, typed, bps, hits, touched, started,
                        pauseRequested, past, faithful>>

RunToTick(tick) ==
  IF tick < OldestTick THEN Error
  ELSE /\ ReplayTo(tick, Going("stop", NoTick))
       /\ UNCHANGED <<snaps, stacks, typed, bps, hits, touched, started, pauseRequested, stop, past>>

StepBackInstruction ==
  IF mach.tick = 0
  THEN stop' = "entry" /\ UNCHANGED <<mach, callStack, snaps, stacks, typed, bps, hits, touched, started,
                                      pauseRequested, cmd, past, faithful>>
  ELSE RunToTick(mach.tick - 1)

(* A scan walks the whole of the history once: from its oldest snapshot to  *)
(* the moment it was asked, remembering the last match before it.           *)
Scan(what) ==
  IF mach.tick <= OldestTick
  THEN /\ stop' = IF what = "breakpoint" /\ Set(mach.pc) THEN "breakpoint" ELSE "step"
       /\ UNCHANGED <<mach, callStack, snaps, stacks, typed, bps, hits, touched, started,
                      pauseRequested, cmd, past, faithful>>
  ELSE /\ ReplayTo(OldestTick, [Going(what, mach.tick) EXCEPT !.line = Listing[mach.pc].line])
       /\ UNCHANGED <<snaps, stacks, typed, bps, hits, touched, started, pauseRequested, stop, past>>

StepBackLine == Scan("line")
ReverseContinue == Scan("breakpoint")

(* Recording, breakpoints and output are all off while replaying.           *)
ReplayStep ==
  /\ cmd.mode = "replay" /\ mach.tick < cmd.tick /\ mach.on
  /\ StepOnce(Step(mach))
  /\ touched' = (touched \/ Step(mach).accessed)
  /\ UNCHANGED <<typed, bps, hits, started, pauseRequested, cmd, stop, faithful>>

(* The replay is over: its command is done, or its scan starts.             *)
ReplayEnds ==
  /\ cmd.mode = "replay" /\ ~(mach.tick < cmd.tick /\ mach.on)
  /\ touched' = FALSE
  /\ IF cmd.next = "stop"
     THEN /\ cmd' = Idle
          /\ stop' = IF cmd.found = NoTick \/ ~Set(mach.pc) THEN "step" ELSE "breakpoint"
     ELSE cmd' = [cmd EXCEPT !.mode = "scan"] /\ UNCHANGED stop
  /\ UNCHANGED <<mach, callStack, snaps, stacks, typed, bps, hits, started, pauseRequested, past, faithful>>

(* Mutant: the condition is not asked.                                      *)
MatchesMutant(m) ==
  IF cmd.next = "line" THEN Listing[m.pc].head /\ Listing[m.pc].line # cmd.line ELSE Set(m.pc)

Matches(m) ==
  IF cmd.next = "line" THEN Listing[m.pc].head /\ Listing[m.pc].line # cmd.line
  ELSE Set(m.pc) /\ bps[m.pc].condition = "true"

ScanStep ==
  /\ cmd.mode = "scan" /\ mach.tick < cmd.back /\ mach.on
  /\ LET s == Step(mach)
     IN  /\ StepOnce(s)
         /\ touched' = (touched \/ s.accessed)
         /\ cmd' = IF s.m.tick < cmd.back /\ Matches(s.m) THEN [cmd EXCEPT !.found = s.m.tick] ELSE cmd
  /\ UNCHANGED <<typed, bps, hits, started, pauseRequested, stop, faithful>>

(* To what was found, or back to where the scan was asked.  Only the search *)
(* for a breakpoint reports one.                                            *)
ScanEnds ==
  /\ cmd.mode = "scan" /\ ~(mach.tick < cmd.back /\ mach.on)
  /\ LET to == IF cmd.found = NoTick THEN cmd.back ELSE cmd.found
     IN  ReplayTo(to, [Going("stop", NoTick) EXCEPT !.found = IF cmd.next = "breakpoint" THEN to ELSE NoTick])
  /\ UNCHANGED <<snaps, stacks, typed, bps, hits, touched, started, pauseRequested, stop, past>>

-----------------------------------------------------------------------------
(* What else a stopped session is asked                                     *)

(* The machine is powered on, recording starts with it, and it runs unless  *)
(* it was asked to stop at its entry.                                       *)
Begin(m, stopOnEntry) ==
  LET frames == ResetCallStack(m)
  IN  /\ started' = TRUE
      /\ callStack' = frames
      /\ snaps' = <<m>> /\ stacks' = <<[tick |-> 0, frames |-> frames]>>
      /\ past' = <<[m |-> m, frames |-> frames]>>
      /\ typed' = <<>>
      /\ IF stopOnEntry THEN stop' = "entry" /\ UNCHANGED <<cmd, pauseRequested>>
         ELSE /\ cmd' = Running("none", DefaultStepLimit, 0, m, 1)
              /\ pauseRequested' = FALSE
              /\ UNCHANGED stop

Start(stopOnEntry) ==
  IF started THEN Error
  ELSE Begin(mach, stopOnEntry) /\ UNCHANGED <<mach, bps, hits, touched, faithful>>

(* A fresh machine, loaded and started again; the breakpoints stay.         *)
RestartSession(stopOnEntry) ==
  /\ Begin(FreshMachine, stopOnEntry)
  /\ mach' = FreshMachine
  /\ hits' = [pc \in Pcs |-> 0]
  /\ touched' = FALSE
  /\ faithful' = TRUE
  /\ UNCHANGED bps

(* Recorded, once recording has started, at the moment it arrived.          *)
PushInput(text) ==
  /\ typed' = IF started THEN Append(typed, [tick |-> mach.tick, text |-> text]) ELSE typed
  /\ mach' = Typed(mach, text)
  /\ UNCHANGED <<callStack, snaps, stacks, bps, hits, touched, started, pauseRequested, cmd, stop, past, faithful>>

(* goto, and any other edit of the machine: the history is not told.        *)
SetProgramCounter(pc) ==
  /\ mach' = [mach EXCEPT !.pc = pc]
  /\ faithful' = FALSE
  /\ UNCHANGED <<callStack, snaps, stacks, typed, bps, hits, touched, started, pauseRequested, cmd, stop, past>>

(* The whole set is replaced, and with it the counts.                       *)
SetBreakpoints(new) ==
  /\ bps' = new
  /\ hits' = [pc \in Pcs |-> 0]
  /\ UNCHANGED <<mach, callStack, snaps, stacks, typed, touched, started, pauseRequested, cmd, stop, past, faithful>>

SessionInit ==
  /\ mach = FreshMachine
  /\ callStack = <<>> /\ snaps = <<>> /\ stacks = <<>> /\ typed = <<>> /\ past = <<>>
  /\ hits = [pc \in Pcs |-> 0]
  /\ touched = FALSE /\ started = FALSE /\ pauseRequested = FALSE
  /\ cmd = Idle /\ stop = "none" /\ faithful = TRUE

(* One turn of the loop of whatever command is in progress.                 *)
SessionTurn == RunUntil \/ ReplayStep \/ ReplayEnds \/ ScanStep \/ ScanEnds

=============================================================================
