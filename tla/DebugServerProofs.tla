-------------------------- MODULE DebugServerProofs --------------------------
(***************************************************************************)
(* The debug server's two threads do not lose each other, a run stops at   *)
(* every plain breakpoint it comes to, and going back puts the session     *)
(* exactly where the program was: for any program, any requests and any    *)
(* number of them, however the session goes back and forth.  The call      *)
(* stack shown is the machine's, for programs whose calls and returns are  *)
(* matched.                                                                *)
(***************************************************************************)
EXTENDS DebugServer, FiniteSetTheorems, SequenceTheorems, WellFoundedInduction, TLAPS

-----------------------------------------------------------------------------
(* The threads                                                             *)

Reading == {"read", "line", "end", "tell", "push", "close", "notify", "done"}
Serving == {"look", "sleepy", "waiting", "dispatch", "busy", "leaving", "gone"}
Lines == Requests \cup {NoRequest}

ServerTypeOK ==
    /\ pipe \in Seq(Lines) /\ queue \in Seq(Lines)
    /\ reader \in [pc : Reading, line : Lines]
    /\ main \in [pc : Serving, request : Lines]
    /\ queueMutex \in {"free", "main"}
    /\ control \in [owner : {"free", "reader"}, stopping : BOOLEAN]

(* Who holds what, told by where each thread is.                           *)
ReaderHolds == control.owner = "reader" <=> reader.pc \in {"tell", "push", "close", "notify"}
MainHolds == queueMutex = "main" <=> main.pc = "sleepy"

(* The queue the main thread looked at is the one it goes to sleep over.   *)
LookedAtNothing == main.pc = "sleepy" => queue = <<>>

(* A server that is gone left no reader inside its control's mutex, and    *)
(* lets none in.                                                           *)
GoneForGood == main.pc = "gone" => control.owner = "free" /\ control.stopping

DInv ==
    /\ ServerTypeOK /\ ReaderHolds /\ MainHolds /\ LookedAtNothing /\ GoneForGood
    /\ NoSleepOverARequest

(* What the session does is none of the threads' business.                 *)
LEMMA SessionIsApart ==
    ASSUME DInv, UNCHANGED <<wires, threads>>
    PROVE  DInv'
BY DEF DInv, ServerTypeOK, ReaderHolds, MainHolds, LookedAtNothing, GoneForGood, NoSleepOverARequest,
       wires, threads

LEMMA ClientStep ==
    ASSUME DInv, Client
    PROVE  DInv'
<1> USE DEF DInv, ServerTypeOK, ReaderHolds, MainHolds, LookedAtNothing, GoneForGood, NoSleepOverARequest,
            threads
<1>1. CASE ClosePipe
    BY <1>1 DEF ClosePipe
<1>2. ASSUME NEW request \in Requests, Ask(request)
      PROVE  DInv'
    BY <1>2 DEF Ask, Lines
<1> QED
    BY <1>1, <1>2 DEF Client

(* The reader pushes only while nobody looks, and wakes whoever waits       *)
(* before it lets its control go.                                           *)
LEMMA ReaderStep ==
    ASSUME DInv, Reader
    PROVE  DInv'
<1> USE DEF DInv, ServerTypeOK, ReaderHolds, MainHolds, LookedAtNothing, GoneForGood, NoSleepOverARequest,
            Reading, Serving, ReaderIs, ReaderAt
<1>1. CASE ReadLine
    <2>1. Head(pipe) \in Lines /\ Tail(pipe) \in Seq(Lines)
        BY <1>1 DEF ReadLine
    <2> QED
        BY <1>1, <2>1 DEF ReadLine
<1>2. CASE ReadEnd
    BY <1>2 DEF ReadEnd, wires
<1>3. CASE TakeControl
    BY <1>3 DEF TakeControl, wires
<1>4. CASE TellSession
    BY <1>4 DEF TellSession, wires
<1>5. CASE Push
    BY <1>5 DEF Push, wires
<1>6. CASE CloseInput
    BY <1>6 DEF CloseInput, wires
<1>7. CASE Notify
    BY <1>7 DEF Notify, wires
<1> QED
    BY <1>1, <1>2, <1>3, <1>4, <1>5, <1>6, <1>7 DEF Reader

(* The main thread sleeps only over the empty queue it holds the mutex of. *)
LEMMA MainStep ==
    ASSUME DInv, Main \/ WakeForNothing
    PROVE  DInv'
<1> USE DEF DInv, ServerTypeOK, ReaderHolds, MainHolds, LookedAtNothing, GoneForGood, NoSleepOverARequest,
            Serving, MainAt, wires
<1>1. CASE Look
    <2>1. queue # <<>> => Head(queue) \in Lines /\ Tail(queue) \in Seq(Lines)
        OBVIOUS
    <2>2. /\ reader' = reader /\ control' = control /\ pipe' = pipe
          /\ \/ main' = [main EXCEPT !.pc = "leaving"] /\ queue' = queue /\ queueMutex' = queueMutex
             \/ /\ queue # <<>> /\ main' = [pc |-> "dispatch", request |-> Head(queue)]
                /\ queue' = Tail(queue) /\ queueMutex' = queueMutex
             \/ /\ queue = <<>> /\ main' = [main EXCEPT !.pc = "sleepy"]
                /\ queue' = queue /\ queueMutex' = "main"
        BY <1>1 DEF Look
    <2>3. main.pc = "look" /\ queueMutex = "free"
        BY <1>1 DEF Look
    <2>4. CASE main' = [main EXCEPT !.pc = "leaving"] /\ queue' = queue /\ queueMutex' = queueMutex
        BY <2>2, <2>3, <2>4
    <2>5. CASE /\ queue # <<>> /\ main' = [pc |-> "dispatch", request |-> Head(queue)]
               /\ queue' = Tail(queue) /\ queueMutex' = queueMutex
        <3>1. main' \in [pc : Serving, request : Lines] /\ main'.pc = "dispatch" /\ queue' \in Seq(Lines)
            BY <2>1, <2>5
        <3> QED
            BY <2>2, <2>3, <2>5, <3>1
    <2>6. CASE /\ queue = <<>> /\ main' = [main EXCEPT !.pc = "sleepy"]
               /\ queue' = queue /\ queueMutex' = "main"
        BY <2>2, <2>3, <2>6
    <2> QED
        BY <2>2, <2>4, <2>5, <2>6
<1>2. CASE Sleep
    BY <1>2 DEF Sleep
<1>3. CASE WakeForNothing
    BY <1>3 DEF WakeForNothing
<1>4. CASE ConfigurationDone
    BY <1>4 DEF ConfigurationDone, Asked
<1>5. CASE Terminate
    BY <1>5 DEF Terminate, Asked
<1>6. CASE RestartRequest \/ RunRequest \/ BackRequest
    BY <1>6 DEF RestartRequest, RunRequest, BackRequest, Commanded, Asked
<1>7. CASE EditRequest \/ OnlyAnswer
    BY <1>7 DEF EditRequest, OnlyAnswer, Replied, Asked
<1>8. CASE Busy
    BY <1>8, SessionIsApart DEF Busy
<1>9. CASE ReportStop
    BY <1>9 DEF ReportStop
<1>10. CASE Destroy
    BY <1>10 DEF Destroy
<1> QED
    BY <1>1, <1>2, <1>3, <1>4, <1>5, <1>6, <1>7, <1>8, <1>9, <1>10 DEF Main

LEMMA ServerStarts == DebugInit => DInv
BY DEF DebugInit, DInv, ServerTypeOK, ReaderHolds, MainHolds, LookedAtNothing, GoneForGood, NoSleepOverARequest,
       Reading, Serving, Lines

(* The invariant of the two threads, kept by every step of either, of the   *)
(* session and of the client: who is inside which mutex of DebugServer, and *)
(* that the condition variable is waited on only over an empty queue.       *)
THEOREM ServerInductive == DebugSpec => []DInv
<1>1. DInv /\ [DebugNext]_debugVars => DInv'
    BY ClientStep, ReaderStep, MainStep, SessionIsApart DEF DebugNext, debugVars
<1> QED
    BY <1>1, ServerStarts, PTL DEF DebugSpec

(* When the server waits with a request queued, the reader is about to wake *)
(* it; and a reader left behind by the end of the server stays out of what  *)
(* is gone (readLoop, run, ~DebugServer).                                   *)
THEOREM ServerKeepsListening == DebugSpec => []ServerListens
<1>1. DInv => ServerListens
    BY DEF DInv, ServerTypeOK, ReaderHolds, GoneForGood, Reading, ServerListens, ServerOutlivesReader
<1> QED
    BY <1>1, ServerInductive, PTL

-----------------------------------------------------------------------------
(* Breakpoints                                                             *)

(* A command is in progress only while the main thread carries it out, and *)
(* hits are counted.                                                       *)
CommandOK == "mode" \in DOMAIN cmd /\ cmd.mode \in {"none", "run", "replay", "scan"}
HitsCounted == hits \in [Pcs -> Nat]
CarriedOut == cmd.mode # "none" => main.pc = "busy"
BInv == CommandOK /\ HitsCounted /\ CarriedOut /\ NoBreakpointRunOver

(* A command that has just started runs from where the machine stands.     *)
JustStarted == CommandOK /\ HitsCounted /\ (cmd.mode = "run" => cmd.first = TRUE)

LEMMA StartedHolds ==
    ASSUME JustStarted', cmd'.mode # "none" => main'.pc = "busy"
    PROVE  BInv'
BY DEF JustStarted, BInv, CarriedOut, NoBreakpointRunOver

(* Nothing of the kind is touched.                                         *)
LEMMA NothingStarts ==
    ASSUME BInv, UNCHANGED sessionVars, cmd.mode # "none" => main'.pc = "busy"
    PROVE  BInv'
BY DEF BInv, CommandOK, HitsCounted, CarriedOut, NoBreakpointRunOver, Set, sessionVars

LEMMA HitsStay ==
    ASSUME HitsCounted, NEW pc
    PROVE  HitsAt(pc) \in [Pcs -> Nat]
BY DEF HitsCounted, HitsAt, HitCounted, Set

(* What a stopped session is asked to do.                                  *)
LEMMA RunStarts ==
    ASSUME HitsCounted, NEW goal, NEW limit, NEW to, Run(goal, limit, to)
    PROVE  JustStarted'
BY DEF Run, Running, JustStarted, CommandOK, HitsCounted

LEMMA ReplayStarts ==
    ASSUME NEW tick, NEW next, NEW back, NEW found, NEW line,
           ReplayTo(tick, [mode |-> "replay", tick |-> 0, next |-> next, back |-> back, found |-> found, line |-> line])
    PROVE  "mode" \in DOMAIN cmd' /\ cmd'.mode = "replay"
BY DEF ReplayTo

LEMMA BackStarts ==
    ASSUME CommandOK, HitsCounted, cmd.mode = "none", NEW tick,
           RunToTick(tick) \/ StepBackInstruction \/ StepBackLine \/ ReverseContinue
    PROVE  JustStarted'
<1> USE DEF JustStarted, CommandOK, HitsCounted
<1>1. ASSUME NEW t, RunToTick(t) PROVE JustStarted'
    <2>1. CASE Error
        BY <2>1 DEF Error, Idle
    <2>2. CASE ReplayTo(t, Going("stop", NoTick)) /\ UNCHANGED hits
        BY <2>2, ReplayStarts DEF Going
    <2> QED
        BY <1>1, <2>1, <2>2 DEF RunToTick
<1>2. ASSUME NEW what, Scan(what) PROVE JustStarted'
    <2>1. CASE UNCHANGED <<cmd, hits>>
        BY <2>1
    <2>2. CASE /\ ReplayTo(OldestTick, [Going(what, mach.tick) EXCEPT !.line = Listing[mach.pc].line])
               /\ UNCHANGED hits
        <3>1. [Going(what, mach.tick) EXCEPT !.line = Listing[mach.pc].line]
                = [mode |-> "replay", tick |-> 0, next |-> what, back |-> mach.tick, found |-> NoTick,
                   line |-> Listing[mach.pc].line]
            BY DEF Going
        <3> QED
            BY <2>2, <3>1, ReplayStarts
    <2> QED
        BY <1>2, <2>1, <2>2 DEF Scan
<1>3. CASE StepBackInstruction
    <2>1. CASE UNCHANGED <<cmd, hits>>
        BY <2>1
    <2> QED
        BY <1>1, <1>3, <2>1 DEF StepBackInstruction
<1> QED
    BY <1>1, <1>2, <1>3 DEF StepBackLine, ReverseContinue

LEMMA BeginStarts ==
    ASSUME CommandOK, cmd.mode = "none", NEW m, NEW stopOnEntry, Begin(m, stopOnEntry), HitsCounted'
    PROVE  JustStarted'
BY DEF Begin, Running, JustStarted, CommandOK

LEMMA RequestStarts ==
    ASSUME DInv, BInv, ConfigurationDone \/ RestartRequest \/ RunRequest \/ BackRequest \/ EditRequest
    PROVE  BInv'
<1>0. cmd.mode = "none" /\ CommandOK /\ HitsCounted
    BY DEF BInv, CarriedOut, ConfigurationDone, RestartRequest, RunRequest, BackRequest, EditRequest, Asked
<1>1. main \in [pc : Serving, request : Lines]
    BY DEF DInv, ServerTypeOK
<1>2. CASE ConfigurationDone
    <2>1. main'.pc = "busy" /\ Start(StopOnEntry)
        BY <1>1, <1>2 DEF ConfigurationDone, MainAt
    <2>2. JustStarted'
        <3>1. CASE Error
            BY <1>0, <3>1 DEF Error, Idle, JustStarted, CommandOK, HitsCounted
        <3>2. CASE Begin(mach, StopOnEntry) /\ UNCHANGED hits
            BY <1>0, <3>2, BeginStarts DEF HitsCounted
        <3> QED
            BY <2>1, <3>1, <3>2 DEF Start
    <2> QED
        BY <2>1, <2>2, StartedHolds
<1>3. CASE RestartRequest
    <2>1. main'.pc = "busy" /\ Begin(FreshMachine, StopOnEntry) /\ hits' = [pc \in Pcs |-> 0]
        BY <1>1, <1>3 DEF RestartRequest, RestartSession, Commanded, MainAt
    <2> QED
        BY <1>0, <2>1, BeginStarts, StartedHolds DEF HitsCounted
<1>4. CASE RunRequest
    <2>1. main'.pc = "busy"
        BY <1>1, <1>4 DEF RunRequest, Commanded, MainAt
    <2>2. CASE StepInstruction
        <3>1. cmd' = cmd /\ \/ hits' = hits
                            \/ hits' = HitsAt(Step(mach).m.pc)
            BY <2>2 DEF StepInstruction
        <3>2. hits' \in [Pcs -> Nat]
            BY <1>0, <3>1, HitsStay DEF HitsCounted
        <3>3. JustStarted'
            BY <1>0, <3>1, <3>2 DEF JustStarted, CommandOK, HitsCounted
        <3> QED
            BY <2>1, <3>3, StartedHolds
    <2>3. CASE Resume \/ StepOver \/ StepLine \/ StepOut \/ RunToAddress(main.request.arg)
        <3>1. JustStarted'
            BY <1>0, <2>3, RunStarts DEF Resume, StepOver, StepLine, StepOut, RunToAddress
        <3> QED
            BY <2>1, <3>1, StartedHolds
    <2> QED
        BY <1>4, <2>2, <2>3 DEF RunRequest
<1>5. CASE BackRequest
    <2>1. main'.pc = "busy"
        BY <1>1, <1>5 DEF BackRequest, Commanded, MainAt
    <2>2. JustStarted'
        BY <1>0, <1>5, BackStarts DEF BackRequest
    <2> QED
        BY <2>1, <2>2, StartedHolds
<1>6. CASE EditRequest
    <2>1. cmd' = cmd /\ (hits' = hits \/ hits' = [pc \in Pcs |-> 0])
        BY <1>6 DEF EditRequest, SetBreakpoints, SetProgramCounter, PushInput
    <2>2. hits' \in [Pcs -> Nat]
        BY <1>0, <2>1 DEF HitsCounted
    <2>3. "mode" \in DOMAIN cmd' /\ cmd'.mode = "none"
        BY <1>0, <2>1 DEF CommandOK
    <2> QED
        BY <2>2, <2>3, StartedHolds DEF JustStarted, CommandOK, HitsCounted
<1> QED
    BY <1>2, <1>3, <1>4, <1>5, <1>6

(* The loop goes on only when no breakpoint holds the machine where the     *)
(* step left it.                                                            *)
LEMMA TurnKeeps ==
    ASSUME BInv, main' = main, SessionTurn
    PROVE  BInv'
<1>0. CommandOK /\ HitsCounted /\ (cmd.mode # "none" => main.pc = "busy")
    BY DEF BInv, CarriedOut
<1>1. CASE RunUntil
    <2>1. main.pc = "busy" /\ bps' = bps /\ cmd.mode = "run"
        BY <1>0, <1>1 DEF RunUntil
    <2>2. CASE cmd' = Idle /\ UNCHANGED hits
        BY <1>0, <2>2, StartedHolds DEF Idle, JustStarted, CommandOK, HitsCounted
    <2>3. CASE ~(cmd.left = 0 \/ Asleep(mach) \/ ~mach.on)
        <3> DEFINE s == Step(mach)
                   reason == Reason(s)
        <3>1. /\ mach' = s.m
              /\ hits' = IF reason \in {"step", "none"} \/ (reason = "breakpoint" /\ ~s.broke)
                         THEN HitsAt(s.m.pc) ELSE hits
              /\ IF reason = "none" THEN cmd' = [cmd EXCEPT !.left = @ - 1, !.first = FALSE] /\ UNCHANGED stop
                 ELSE Stopped(reason)
            BY <1>1, <2>3 DEF RunUntil, StepOnce
        <3>2. reason = "none" => ~ShouldStopAt(s.m.pc)
            BY DEF Reason
        <3> HIDE DEF s, reason
        <3>3. hits' \in [Pcs -> Nat]
            BY <1>0, <3>1, HitsStay DEF HitsCounted
        <3>4. CASE reason # "none"
            <4>1. cmd' = [mode |-> "none"]
                BY <3>1, <3>4 DEF Stopped, Idle
            <4>2. "mode" \in DOMAIN cmd' /\ cmd'.mode = "none"
                BY <4>1
            <4> QED
                BY <3>3, <4>2, StartedHolds DEF JustStarted, CommandOK, HitsCounted
        <3>5. CASE reason = "none"
            <4>1. "mode" \in DOMAIN cmd' /\ cmd'.mode = "run"
                BY <1>0, <2>1, <3>1, <3>5 DEF CommandOK
            <4>2. ASSUME Set(s.m.pc), bps[s.m.pc] = PlainPoint
                  PROVE  FALSE
                <5>1. HitCounted(s.m.pc) /\ s.m.pc \in Pcs
                    BY <4>2 DEF HitCounted, Set, PlainPoint
                <5>2. hits[s.m.pc] \in Nat
                    BY <1>0, <5>1 DEF HitsCounted
                <5>3. hits[s.m.pc] + 1 >= bps[s.m.pc].from /\ ~bps[s.m.pc].log
                    BY <4>2, <5>2 DEF PlainPoint
                <5> QED
                    BY <3>2, <3>5, <5>1, <5>3 DEF ShouldStopAt
            <4>3. NoBreakpointRunOver'
                <5>1. Set(mach.pc)' <=> Set(s.m.pc)
                    BY <2>1, <3>1 DEF Set
                <5> QED
                    BY <2>1, <3>1, <4>2, <5>1 DEF NoBreakpointRunOver
            <4> QED
                BY <2>1, <3>3, <4>1, <4>3 DEF BInv, CommandOK, HitsCounted, CarriedOut
        <3> QED
            BY <3>4, <3>5
    <2> QED
        BY <1>1, <2>2, <2>3 DEF RunUntil, Stopped
<1>2. CASE ReplayStep \/ ScanStep
    <2>1. /\ hits' = hits /\ cmd.mode \in {"replay", "scan"}
          /\ cmd' = cmd \/ cmd' = [cmd EXCEPT !.found = Step(mach).m.tick]
        BY <1>2 DEF ReplayStep, ScanStep
    <2>2. "mode" \in DOMAIN cmd' /\ cmd'.mode = cmd.mode
        BY <1>0, <2>1 DEF CommandOK
    <2> QED
        BY <1>0, <2>1, <2>2, StartedHolds DEF JustStarted, CommandOK, HitsCounted
<1>3. CASE ReplayEnds
    <2>1. hits' = hits /\ cmd.mode = "replay" /\ (cmd' = Idle \/ cmd' = [cmd EXCEPT !.mode = "scan"])
        BY <1>3 DEF ReplayEnds
    <2>2. "mode" \in DOMAIN cmd' /\ cmd'.mode \in {"none", "scan"}
        BY <1>0, <2>1 DEF CommandOK, Idle
    <2> QED
        BY <1>0, <2>1, <2>2, StartedHolds DEF JustStarted, CommandOK, HitsCounted
<1>4. CASE ScanEnds
    <2> DEFINE to == IF cmd.found = NoTick THEN cmd.back ELSE cmd.found
               found == IF cmd.next = "breakpoint" THEN to ELSE NoTick
    <2>1. hits' = hits /\ cmd.mode = "scan" /\ ReplayTo(to, [Going("stop", NoTick) EXCEPT !.found = found])
        BY <1>4 DEF ScanEnds
    <2> HIDE DEF to, found
    <2>2. [Going("stop", NoTick) EXCEPT !.found = found]
            = [mode |-> "replay", tick |-> 0, next |-> "stop", back |-> NoTick, found |-> found, line |-> 0]
        BY DEF Going
    <2>3. "mode" \in DOMAIN cmd' /\ cmd'.mode = "replay"
        BY <2>1, <2>2, ReplayStarts
    <2> QED
        BY <1>0, <2>1, <2>3, StartedHolds DEF JustStarted, CommandOK, HitsCounted
<1> QED
    BY <1>1, <1>2, <1>3, <1>4 DEF SessionTurn

LEMMA BreakpointsStep ==
    ASSUME DInv, BInv, [DebugNext]_debugVars
    PROVE  BInv'
<1>0. main \in [pc : Serving, request : Lines]
    BY DEF DInv, ServerTypeOK
<1>1. CASE ConfigurationDone \/ RestartRequest \/ RunRequest \/ BackRequest \/ EditRequest
    BY <1>1, RequestStarts
<1>2. CASE Busy
    BY <1>2, TurnKeeps DEF Busy, threads
<1>3. CASE UNCHANGED debugVars \/ Client
    BY <1>3, NothingStarts DEF debugVars, Client, ClosePipe, Ask, threads, BInv, CarriedOut
<1>4. CASE TellSession
    BY <1>4 DEF TellSession, BInv, CommandOK, HitsCounted, CarriedOut, NoBreakpointRunOver, Set
<1>5. CASE ReadLine \/ ReadEnd \/ TakeControl \/ Push \/ CloseInput \/ Notify
    <2>1. UNCHANGED sessionVars
        BY <1>5 DEF ReadLine, ReadEnd, TakeControl, Push, CloseInput, Notify
    <2>2. main' = main \/ main.pc = "waiting"
        BY <1>5 DEF ReadLine, ReadEnd, TakeControl, Push, CloseInput, Notify
    <2> QED
        BY <2>1, <2>2, NothingStarts DEF BInv, CarriedOut
<1>6. CASE Look \/ Sleep \/ WakeForNothing \/ Terminate \/ OnlyAnswer \/ Destroy
    <2>1. UNCHANGED sessionVars /\ main.pc # "busy"
        BY <1>6 DEF Look, Sleep, WakeForNothing, Terminate, OnlyAnswer, Destroy, Asked
    <2> QED
        BY <2>1, NothingStarts DEF BInv, CarriedOut
<1>7. CASE ReportStop
    <2>1. UNCHANGED sessionVars /\ cmd.mode = "none"
        BY <1>7 DEF ReportStop
    <2> QED
        BY <2>1, NothingStarts
<1> QED
    BY <1>1, <1>2, <1>3, <1>4, <1>5, <1>6, <1>7 DEF DebugNext, Reader, Main

(* The invariant of the breakpoints, kept by every request and every turn   *)
(* of a command: hits are counted, and a command is under way only while    *)
(* the main thread is busy with it.                                         *)
THEOREM BreakpointsInductive == DebugSpec => []BInv
<1>1. DebugInit => BInv
    BY DEF DebugInit, SessionInit, Idle, BInv, CommandOK, HitsCounted, CarriedOut, NoBreakpointRunOver
<1> QED
    BY <1>1, BreakpointsStep, ServerInductive, PTL DEF DebugSpec

(* A run is never about to execute an instruction that holds a breakpoint   *)
(* that asks nothing, but for the one it set out from: whatever else stops  *)
(* it first, in runUntil's order, and whatever was done to the history.     *)
THEOREM BreakpointsStop == DebugSpec => []NoBreakpointRunOver
<1>1. BInv => NoBreakpointRunOver
    BY DEF BInv
<1> QED
    BY <1>1, BreakpointsInductive, PTL

-----------------------------------------------------------------------------
(* Going back                                                              *)

(* The machine's record, and what a machine the session keeps is.          *)
MachFields == {"tick", "clock", "due", "pc", "stack", "under", "onSystem", "saved", "depth", "enabled", "halted",
               "raised", "pending", "input", "got", "on"}
Formed(m) ==
    /\ m = [x \in MachFields |-> m[x]]
    /\ m.tick \in Nat /\ m.on \in BOOLEAN /\ m.depth \in Nat /\ (m.depth = 0 => m.saved = 0)

(* What a moment of the history leads to: the machine may wait once for its *)
(* device, then an instruction retires.                                    *)
Rested(m) == IF Waits(m) THEN Step(m).m ELSE m
After(p) ==
    LET w == Rested(p.m)
    IN  [m |-> Step(w).m, frames |-> UpdateCallStack(p.frames, w, Step(w))]

(* The history is what the program did: each moment leads to the next.      *)
Moment(p) == p = [m |-> p.m, frames |-> p.frames] /\ Formed(p.m)
IsSeq(q) == \E T : q \in Seq(T)
Told(P) ==
    /\ IsSeq(P)
    /\ \A i \in 1..Len(P) : Moment(P[i]) /\ P[i].m.tick = i - 1
    /\ \A i \in 1..Len(P) - 1 : P[i].m.on /\ ~Waits(Rested(P[i].m)) /\ P[i + 1] = After(P[i])

(* The machine is at a moment of it, or has waited there.                  *)
AtMoment(P, m) == m.tick + 1 \in 1..Len(P) /\ m = P[m.tick + 1].m
Stands(P, m, frames) ==
    /\ Formed(m) /\ m.tick + 1 \in 1..Len(P) /\ frames = P[m.tick + 1].frames
    /\ AtMoment(P, m) \/ m = Rested(P[m.tick + 1].m)

(* Each snapshot is of a moment, with the frames of that moment.            *)
Snapped(P, S, K) ==
    /\ IsSeq(S) /\ IsSeq(K) /\ Len(S) > 0 /\ Len(K) = Len(S)
    /\ \A i \in 1..Len(S) : /\ AtMoment(P, S[i]) /\ S[i].on
                            /\ K[i] = [tick |-> S[i].tick, frames |-> P[S[i].tick + 1].frames]
    /\ \A i, j \in 1..Len(S) : i < j => S[i].tick < S[j].tick

(* A machine that waited at a moment is past the snapshot due there.        *)
TakenInTime == ~Replaying /\ ~AtMoment(past, mach) => ~SnapshotDue(mach.tick)

(* A machine that waits has nothing due and nothing raised; when its device *)
(* is due, it waits no more.                                               *)
LEMMA WaitingOnce ==
    ASSUME NEW m, Formed(m), Waits(m)
    PROVE  LET s == Step(m)
           IN  /\ Formed(s.m) /\ s.m.tick = m.tick /\ s.m.on = m.on /\ s.m.pc = m.pc /\ s.entered = FALSE /\ m.halted
               /\ s.m = m \/ ~Waits(s.m)
               /\ s.m.depth = m.depth /\ s.m.stack = m.stack /\ s.m.under = m.under
               /\ s.m.onSystem = m.onSystem /\ s.m.saved = m.saved
<1> DEFINE r == [m EXCEPT !.due = 0]
           u == [m EXCEPT !.clock = m.due, !.due = 0]
<1>1. \A n : Formed(n) => Formed(Raise(n)) /\ Raise(n).raised /\ Raise(n).pending /\ Raise(n).due = n.due
    BY DEF Raise, Formed, MachFields
<1>2. Formed(r) /\ Formed(u) /\ r.due = 0 /\ u.due = 0
    BY DEF Formed, MachFields
<1>3. ASSUME NEW n, Formed(n), n.raised, n.due = 0 PROVE ~Waits(n)
    <2>1. Serviced(n) = n
        BY <1>3 DEF Serviced
    <2>2. LetThrough(n) => ~Delivered(n).halted
        BY <1>3, <2>1 DEF Delivered, Enter, Formed, MachFields
    <2>3. ~LetThrough(n) => Delivered(n) = n
        BY <2>1 DEF Delivered
    <2> QED
        BY <1>3, <2>2, <2>3 DEF Waits
<1>4. Serviced(m) = m
    <2>1. CASE m.due # 0 /\ m.clock >= m.due
        <3>1. Serviced(m) = Raise(r)
            BY <2>1 DEF Serviced
        <3>2. Formed(Raise(r)) /\ Raise(r).raised
            BY <1>1, <1>2
        <3>3. LetThrough(Raise(r)) => ~Delivered(m).halted
            BY <3>1, <3>2 DEF Delivered, Enter, Formed, MachFields
        <3>4. ~LetThrough(Raise(r)) => Delivered(m) = Raise(r)
            BY <3>1 DEF Delivered
        <3> QED
            BY <3>2, <3>3, <3>4 DEF Waits
    <2> QED
        BY <2>1 DEF Serviced
<1>5. ~LetThrough(m)
    BY <1>4 DEF Delivered, Enter, Formed, MachFields, Waits
<1>6. Delivered(m) = m /\ m.halted
    BY <1>4, <1>5 DEF Delivered, Waits
<1> HIDE DEF r, u
<1>7. Step(m).m = (IF m.due = 0 THEN m ELSE Raise(u)) /\ Step(m).entered = FALSE
    BY <1>6 DEF Step, u
<1>8. CASE m.due = 0
    BY <1>6, <1>7, <1>8
<1>9. CASE m.due # 0
    <2>1. Step(m).m = Raise(u)
        BY <1>7, <1>9
    <2>2. Formed(Raise(u)) /\ ~Waits(Raise(u))
        BY <1>1, <1>2, <1>3
    <2>3. /\ Raise(u).tick = m.tick /\ Raise(u).on = m.on /\ Raise(u).pc = m.pc
          /\ Raise(u).depth = m.depth /\ Raise(u).stack = m.stack /\ Raise(u).under = m.under
          /\ Raise(u).onSystem = m.onSystem /\ Raise(u).saved = m.saved
        BY DEF Raise, u, Formed, MachFields
    <2> QED
        BY <1>6, <1>7, <2>1, <2>2, <2>3
<1> QED
    BY <1>8, <1>9

(* Neither an interrupt nor an instruction touches the count of             *)
(* instructions, and only powering off touches the power.                   *)
LEMMA EnterForm ==
    ASSUME NEW m, Formed(m), NEW handler
    PROVE  Formed(Enter(m, handler)) /\ Enter(m, handler).tick = m.tick /\ Enter(m, handler).on = m.on
<1>1. PICK depth, saved, under, sys, stack, r :
        /\ r = [m EXCEPT !.enabled = FALSE, !.halted = FALSE, !.pc = handler, !.depth = depth, !.saved = saved,
                         !.under = under, !.onSystem = sys, !.stack = stack]
        /\ r = Enter(m, handler) /\ depth = m.depth + 1
    BY DEF Enter
<1>2. r = [x \in MachFields |-> r[x]] /\ r.tick = m.tick /\ r.on = m.on /\ r.depth = depth
    BY <1>1 DEF Formed, MachFields
<1>3. depth \in Nat \ {0}
    BY <1>1 DEF Formed
<1>4. Formed(r)
    BY <1>2, <1>3 DEF Formed
<1> QED
    BY <1>1, <1>2, <1>4

LEMMA LeaveForm ==
    ASSUME NEW m, Formed(m)
    PROVE  Formed(Leave(m)) /\ Leave(m).tick = m.tick /\ Leave(m).on = m.on
<1> DEFINE back == [m EXCEPT !.pc = Top(m.stack), !.stack = Front(m.stack), !.enabled = m.depth <= 1]
<1>1. Formed(back) /\ back.tick = m.tick /\ back.on = m.on /\ back.depth = m.depth
    BY DEF Formed, MachFields
<1>2. CASE m.depth = 1
    <2> DEFINE st == [i \in 1..m.saved |-> IF i \in DOMAIN m.under THEN m.under[i] ELSE 1]
               r == [back EXCEPT !.depth = 0, !.onSystem = FALSE, !.under = <<>>, !.saved = 0, !.stack = st]
    <2>1. Leave(m) = r
        BY <1>2 DEF Leave
    <2> HIDE DEF back, st
    <2>2. r = [x \in MachFields |-> r[x]] /\ r.tick = back.tick /\ r.on = back.on /\ r.depth = 0 /\ r.saved = 0
        BY <1>1 DEF Formed, MachFields
    <2> HIDE DEF r
    <2> QED
        BY <1>1, <2>1, <2>2 DEF Formed
<1>3. CASE m.depth > 1
    <2>1. Leave(m) = [back EXCEPT !.depth = m.depth - 1]
        BY <1>3 DEF Leave, Formed
    <2>2. m.depth - 1 \in Nat \ {0}
        BY <1>3 DEF Formed
    <2> HIDE DEF back
    <2> QED
        BY <1>1, <2>1, <2>2 DEF Formed, MachFields
<1>4. CASE m.depth = 0
    <2>1. Leave(m) = back
        BY <1>4 DEF Leave
    <2> QED
        BY <1>1, <2>1
<1> QED
    BY <1>2, <1>3, <1>4 DEF Formed

LEMMA ExecuteForm ==
    ASSUME NEW m, Formed(m)
    PROVE  Formed(ExecuteAt(m)) /\ ExecuteAt(m).tick = m.tick /\ (ExecuteAt(m).on => m.on)
<1> DEFINE here == Listing[m.pc]
           on == [m EXCEPT !.pc = m.pc + 1]
<1>1. Formed(on) /\ on.tick = m.tick /\ on.on = m.on
    BY DEF Formed, MachFields
<1>2. \A v, w : Formed([m EXCEPT !.pc = v, !.stack = w]) /\ [m EXCEPT !.pc = v, !.stack = w].tick = m.tick
                /\ [m EXCEPT !.pc = v, !.stack = w].on = m.on
    BY DEF Formed, MachFields
<1>3. ASSUME NEW v, NEW w PROVE
        /\ Formed([on EXCEPT !.stack = v]) /\ [on EXCEPT !.stack = v].tick = m.tick /\ [on EXCEPT !.stack = v].on = m.on
        /\ Formed([on EXCEPT !.raised = v]) /\ [on EXCEPT !.raised = v].tick = m.tick /\ [on EXCEPT !.raised = v].on = m.on
        /\ Formed([on EXCEPT !.halted = v]) /\ [on EXCEPT !.halted = v].tick = m.tick /\ [on EXCEPT !.halted = v].on = m.on
        /\ Formed([on EXCEPT !.got = v]) /\ [on EXCEPT !.got = v].tick = m.tick /\ [on EXCEPT !.got = v].on = m.on
        /\ Formed([on EXCEPT !.got = v, !.input = w]) /\ [on EXCEPT !.got = v, !.input = w].tick = m.tick
        /\ [on EXCEPT !.got = v, !.input = w].on = m.on
    <2> HIDE DEF on
    <2> QED
        BY <1>1 DEF Formed, MachFields
<1>4. Formed([m EXCEPT !.on = FALSE]) /\ [m EXCEPT !.on = FALSE].tick = m.tick /\ [m EXCEPT !.on = FALSE].on = FALSE
    BY DEF Formed, MachFields
<1>5. PICK x : x = ExecuteAt(m)
    OBVIOUS
<1>6. \/ x = on \/ x = Leave(m) \/ x = Enter(m, FaultHandler) \/ x = [m EXCEPT !.on = FALSE]
      \/ \E v, w : x = [m EXCEPT !.pc = v, !.stack = w]
      \/ \E v : x \in {[on EXCEPT !.stack = v], [on EXCEPT !.raised = v], [on EXCEPT !.halted = v], [on EXCEPT !.got = v]}
      \/ \E v, w : x = [on EXCEPT !.got = v, !.input = w]
    BY <1>5 DEF ExecuteAt
<1> HIDE DEF on
<1>7. Formed(x) /\ x.tick = m.tick /\ (x.on => m.on)
    <2> DEFINE Fine(y) == Formed(y) /\ y.tick = m.tick /\ (y.on => m.on)
    <2>1. CASE x = on \/ x = Leave(m) \/ x = Enter(m, FaultHandler) \/ x = [m EXCEPT !.on = FALSE]
        <3>1. Fine(on)
            BY <1>1
        <3>2. Fine(Leave(m)) /\ Fine(Enter(m, FaultHandler))
            BY EnterForm, LeaveForm
        <3>3. Fine([m EXCEPT !.on = FALSE])
            BY <1>4
        <3> HIDE DEF Fine
        <3>4. Fine(x)
            BY <2>1, <3>1, <3>2, <3>3
        <3> QED
            BY <3>4 DEF Fine
    <2>2. CASE \E v, w : x = [m EXCEPT !.pc = v, !.stack = w]
        <3>1. PICK v, w : x = [m EXCEPT !.pc = v, !.stack = w]
            BY <2>2
        <3>2. Fine([m EXCEPT !.pc = v, !.stack = w])
            BY <1>2
        <3> QED
            BY <3>1, <3>2
    <2>3. CASE \E v : x \in {[on EXCEPT !.stack = v], [on EXCEPT !.raised = v], [on EXCEPT !.halted = v], [on EXCEPT !.got = v]}
        <3>1. PICK v : x \in {[on EXCEPT !.stack = v], [on EXCEPT !.raised = v], [on EXCEPT !.halted = v], [on EXCEPT !.got = v]}
            BY <2>3
        <3>2. /\ Fine([on EXCEPT !.stack = v]) /\ Fine([on EXCEPT !.raised = v])
              /\ Fine([on EXCEPT !.halted = v]) /\ Fine([on EXCEPT !.got = v])
            BY <1>3
        <3> HIDE DEF Fine
        <3>3. Fine(x)
            BY <3>1, <3>2
        <3> QED
            BY <3>3 DEF Fine
    <2>4. CASE \E v, w : x = [on EXCEPT !.got = v, !.input = w]
        <3>1. PICK v, w : x = [on EXCEPT !.got = v, !.input = w]
            BY <2>4
        <3>2. Fine([on EXCEPT !.got = v, !.input = w])
            BY <1>3
        <3> QED
            BY <3>1, <3>2
    <2> QED
        BY <1>6, <2>1, <2>2, <2>3, <2>4
<1> QED
    BY <1>5, <1>7

(* A step that does not wait retires an instruction.                        *)
LEMMA Retires ==
    ASSUME NEW m, Formed(m), ~Waits(m)
    PROVE  Formed(Step(m).m) /\ Step(m).m.tick = m.tick + 1 /\ (Step(m).m.on => m.on)
<1> DEFINE s == Serviced(m)
           d == Delivered(m)
           awake == IF d.halted THEN [d EXCEPT !.halted = FALSE, !.raised = FALSE] ELSE d
<1>1. Formed(s) /\ s.tick = m.tick /\ s.on = m.on
    BY DEF Serviced, Raise, Formed, MachFields
<1>2. Formed(d) /\ d.tick = m.tick /\ d.on = m.on
    <2>1. CASE LetThrough(s)
        <3>1. d = [Enter(s, Handler) EXCEPT !.pending = FALSE, !.raised = FALSE]
            BY <2>1 DEF Delivered
        <3> HIDE DEF s, d
        <3>2. PICK e : e = Enter(s, Handler)
            OBVIOUS
        <3>3. Formed(e) /\ e.tick = s.tick /\ e.on = s.on
            BY <1>1, <3>2, EnterForm
        <3>4. d = [e EXCEPT !.pending = FALSE, !.raised = FALSE]
            BY <3>1, <3>2
        <3>5. Formed(d) /\ d.tick = e.tick /\ d.on = e.on
            BY <3>3, <3>4 DEF Formed, MachFields
        <3> QED
            BY <1>1, <3>3, <3>5
    <2>2. CASE ~LetThrough(s)
        BY <1>1, <2>2 DEF Delivered
    <2> QED
        BY <2>1, <2>2
<1>3. Step(m).m = Retired(ExecuteAt(awake))
    BY DEF Step
<1> HIDE DEF s, d
<1>4. Formed(awake) /\ awake.tick = m.tick /\ awake.on = m.on
    BY <1>2 DEF Formed, MachFields
<1> HIDE DEF awake
<1>5. PICK x : x = ExecuteAt(awake)
    OBVIOUS
<1>6. Formed(x) /\ x.tick = m.tick /\ (x.on => m.on)
    BY <1>4, <1>5, ExecuteForm
<1>7. Formed(Retired(x)) /\ Retired(x).tick = m.tick + 1 /\ Retired(x).on = x.on
    <2>1. PICK r, t, c : r = Retired(x) /\ r = [x EXCEPT !.tick = t, !.clock = c] /\ t = x.tick + 1
        BY DEF Retired
    <2>2. t = m.tick + 1 /\ t \in Nat
        BY <1>6, <2>1 DEF Formed
    <2>3. r = [y \in MachFields |-> r[y]] /\ r.tick = t /\ r.on = x.on /\ r.depth = x.depth /\ r.saved = x.saved
        BY <1>6, <2>1 DEF Formed, MachFields
    <2>4. Formed(r)
        BY <1>6, <2>2, <2>3 DEF Formed
    <2> QED
        BY <2>1, <2>2, <2>3, <2>4
<1> QED
    BY <1>3, <1>5, <1>6, <1>7

-----------------------------------------------------------------------------
(* Sequences that grow, and lose their oldest.                              *)

LEMMA Appended ==
    ASSUME NEW q, IsSeq(q), NEW x
    PROVE  /\ IsSeq(Append(q, x)) /\ Len(q) \in Nat /\ Len(Append(q, x)) = Len(q) + 1
           /\ Append(q, x)[Len(q) + 1] = x /\ \A i \in 1..Len(q) : Append(q, x)[i] = q[i]
<1>1. PICK T : q \in Seq(T)
    BY DEF IsSeq
<1>2. q \in Seq(T \cup {x}) /\ Append(q, x) \in Seq(T \cup {x})
    BY <1>1
<1> QED
    BY <1>2 DEF IsSeq

LEMMA Tailed ==
    ASSUME NEW q, IsSeq(q), Len(q) > 0
    PROVE  /\ IsSeq(Tail(q)) /\ Len(q) \in Nat /\ Len(Tail(q)) = Len(q) - 1
           /\ \A i \in 1..Len(q) - 1 : Tail(q)[i] = q[i + 1]
<1>1. PICK T : q \in Seq(T)
    BY DEF IsSeq
<1>2. Tail(q) \in Seq(T) /\ Len(q) \in Nat /\ q # <<>>
    BY <1>1
<1> QED
    BY <1>1, <1>2 DEF IsSeq

Longer(P, Q) == Len(Q) \in Nat /\ Len(P) \in Nat /\ Len(P) <= Len(Q) /\ \A i \in 1..Len(P) : Q[i] = P[i]

(* The history once the machine came somewhere.                             *)
Continued(P, m, frames) == IF m.tick = Len(P) THEN Append(P, [m |-> m, frames |-> frames]) ELSE P

(* One step of the machine, along the history or at its end.                *)
LEMMA Forward ==
    ASSUME NEW P, Told(P), NEW M, NEW F, Stands(P, M, F), M.on, NEW s, s = Step(M),
           NEW F2, F2 = UpdateCallStack(F, M, s),
           NEW Q, Q = Continued(P, s.m, F2)
    PROVE  /\ Told(Q) /\ Stands(Q, s.m, F2) /\ Longer(P, Q)
           /\ Waits(M) => Q = P /\ s.m.tick = M.tick /\ M = P[M.tick + 1].m /\ s.m.pc = M.pc
           /\ ~Waits(M) => M = Rested(P[M.tick + 1].m) /\ s.m.tick = M.tick + 1 /\ AtMoment(Q, s.m)
<1> DEFINE i == M.tick + 1
           p == P[i]
<1>1. i \in 1..Len(P) /\ Formed(M) /\ F = p.frames /\ Moment(p) /\ p.m.tick = M.tick /\ M.tick \in Nat /\ Len(P) \in Nat
    <2>1. i \in 1..Len(P) /\ Formed(M) /\ F = p.frames
        BY DEF Stands
    <2>2. Moment(p) /\ p.m.tick = i - 1 /\ IsSeq(P)
        BY <2>1 DEF Told
    <2>3. Len(P) \in Nat
        BY <2>2, Appended
    <2>4. M.tick \in Nat
        BY <2>1 DEF Formed
    <2> QED
        BY <2>1, <2>2, <2>3, <2>4
<1>2. M = p.m \/ M = Rested(p.m)
    BY DEF Stands, AtMoment
<1>3. Formed(p.m) /\ p = [m |-> p.m, frames |-> p.frames]
    BY <1>1 DEF Moment
<1>6. p.m.on
    BY <1>2, <1>3, WaitingOnce DEF Rested
<1> HIDE DEF i, p
<1>4. CASE Waits(M)
    <2>1. M = p.m
        <3>1. ~Waits(p.m) => Rested(p.m) = p.m
            BY DEF Rested
        <3>2. Waits(p.m) => Step(p.m).m = p.m \/ ~Waits(Step(p.m).m)
            BY <1>3, WaitingOnce
        <3>3. Waits(p.m) => Rested(p.m) = Step(p.m).m
            BY DEF Rested
        <3> QED
            BY <1>2, <1>4, <3>1, <3>2, <3>3
    <2>2. Formed(s.m) /\ s.m.tick = M.tick /\ s.m.pc = M.pc /\ s.entered = FALSE /\ M.halted
        BY <1>1, <1>4, WaitingOnce
    <2>3. F2 = F
        BY <2>2 DEF UpdateCallStack
    <2>4. Q = P
        BY <1>1, <2>2 DEF i, Continued
    <2>5. s.m = Rested(p.m)
        BY <1>4, <2>1 DEF Rested
    <2>6. Stands(Q, s.m, F2)
        BY <1>1, <2>2, <2>3, <2>4, <2>5 DEF Stands, i, p
    <2>7. Longer(P, Q)
        BY <1>1, <2>4 DEF Longer
    <2> QED
        BY <1>4, <2>1, <2>2, <2>4, <2>6, <2>7 DEF i, p
<1>5. CASE ~Waits(M)
    <2>1. M = Rested(p.m)
        BY <1>2, <1>5 DEF Rested
    <2>2. Formed(s.m) /\ s.m.tick = M.tick + 1
        BY <1>1, <1>5, Retires
    <2>3. After(p) = [m |-> s.m, frames |-> F2]
        BY <1>1, <2>1 DEF After
    <2>4. CASE i < Len(P)
        <3>1. P[i + 1] = After(p)
            <4>1. i \in 1..Len(P) - 1
                BY <1>1, <2>4
            <4> QED
                BY <4>1 DEF Told, p
        <3>2. Q = P
            BY <1>1, <2>2, <2>4 DEF i, Continued
        <3>3. AtMoment(Q, s.m) /\ s.m.tick + 1 \in 1..Len(Q) /\ F2 = Q[s.m.tick + 1].frames
            BY <1>1, <2>2, <2>3, <2>4, <3>1, <3>2 DEF i, AtMoment
        <3>4. Stands(Q, s.m, F2) /\ Longer(P, Q)
            BY <1>1, <2>2, <3>2, <3>3 DEF Stands, Longer
        <3> QED
            BY <1>5, <2>1, <2>2, <3>2, <3>3, <3>4 DEF i, p
    <2>5. CASE i = Len(P)
        <3>1. Q = Append(P, After(p))
            BY <1>1, <2>2, <2>3, <2>5 DEF i, Continued
        <3>2. /\ IsSeq(Q) /\ Len(Q) = Len(P) + 1 /\ Q[i + 1] = After(p)
              /\ \A j \in 1..Len(P) : Q[j] = P[j]
            BY <2>5, <3>1, Appended DEF Told
        <3>3. Moment(After(p)) /\ After(p).m.tick = i
            BY <1>1, <2>2, <2>3 DEF Moment, i
        <3>4. Told(Q)
            <4>1. ASSUME NEW j \in 1..Len(Q) PROVE Moment(Q[j]) /\ Q[j].m.tick = j - 1
                <5>1. CASE j = i + 1
                    BY <1>1, <3>2, <3>3, <5>1 DEF i
                <5>2. CASE j # i + 1
                    BY <1>1, <2>5, <3>2, <5>2 DEF Told
                <5> QED
                    BY <5>1, <5>2
            <4>2. ASSUME NEW j \in 1..Len(Q) - 1 PROVE Q[j].m.on /\ ~Waits(Rested(Q[j].m)) /\ Q[j + 1] = After(Q[j])
                <5>1. CASE j = i
                    BY <1>1, <1>5, <1>6, <2>1, <3>2, <5>1 DEF p
                <5>2. CASE j # i
                    <6>1. j \in 1..Len(P) - 1 /\ j \in 1..Len(P) /\ j + 1 \in 1..Len(P)
                        BY <1>1, <2>5, <3>2, <5>2
                    <6> QED
                        BY <3>2, <6>1 DEF Told
                <5> QED
                    BY <5>1, <5>2
            <4> QED
                BY <3>2, <4>1, <4>2 DEF Told
        <3>5. AtMoment(Q, s.m) /\ s.m.tick + 1 \in 1..Len(Q) /\ F2 = Q[s.m.tick + 1].frames
            BY <1>1, <2>2, <2>3, <2>5, <3>2 DEF i, AtMoment
        <3>6. Stands(Q, s.m, F2) /\ Longer(P, Q)
            BY <1>1, <2>2, <3>2, <3>5 DEF Stands, Longer
        <3> QED
            BY <1>5, <2>1, <2>2, <3>4, <3>5, <3>6 DEF i, p
    <2> QED
        BY <1>1, <2>4, <2>5
<1> QED
    BY <1>4, <1>5

(* The snapshots of a history are those of one that goes on.                *)
LEMMA StillSnapped ==
    ASSUME NEW P, NEW Q, Longer(P, Q), NEW S, NEW K, Snapped(P, S, K)
    PROVE  Snapped(Q, S, K)
<1>1. ASSUME NEW m, AtMoment(P, m)
      PROVE  AtMoment(Q, m) /\ Q[m.tick + 1].frames = P[m.tick + 1].frames
    BY <1>1 DEF AtMoment, Longer
<1> QED
    BY <1>1 DEF Snapped

(* A snapshot is added, and the oldest one dropped when there are too many. *)
LEMMA SnapshotTaken ==
    ASSUME NEW P, NEW S, NEW K, Snapped(P, S, K), NEW M, AtMoment(P, M), M.tick \in Nat, M.on,
           \A i \in 1..Len(S) : S[i].tick \in Nat, S[Len(S)].tick < M.tick,
           NEW k, k = [tick |-> M.tick, frames |-> P[M.tick + 1].frames]
    PROVE  LET S2 == Kept(Append(S, M))
           IN  Snapped(P, S2, Kept(Append(K, k))) /\ S2[Len(S2)] = M
<1> DEFINE A == Append(S, M)
           B == Append(K, k)
<1>1. IsSeq(S) /\ IsSeq(K) /\ Len(S) > 0 /\ Len(K) = Len(S)
    BY DEF Snapped
<1>2. /\ IsSeq(A) /\ Len(S) \in Nat /\ Len(A) = Len(S) + 1 /\ A[Len(S) + 1] = M
      /\ \A i \in 1..Len(S) : A[i] = S[i]
    BY <1>1, Appended
<1>3. /\ IsSeq(B) /\ Len(B) = Len(S) + 1 /\ B[Len(S) + 1] = k
      /\ \A i \in 1..Len(S) : B[i] = K[i]
    BY <1>1, Appended
<1> HIDE DEF A, B
<1>4. Snapped(P, A, B)
    <2>1. ASSUME NEW i \in 1..Len(A)
          PROVE  AtMoment(P, A[i]) /\ A[i].on /\ B[i] = [tick |-> A[i].tick, frames |-> P[A[i].tick + 1].frames]
        <3>1. CASE i = Len(S) + 1
            BY <1>2, <1>3, <3>1
        <3>2. CASE i # Len(S) + 1
            <4>1. i \in 1..Len(S)
                BY <1>2, <3>2
            <4> QED
                BY <1>2, <1>3, <4>1 DEF Snapped
        <3> QED
            BY <3>1, <3>2
    <2>2. ASSUME NEW i \in 1..Len(A), NEW j \in 1..Len(A), i < j
          PROVE  A[i].tick < A[j].tick
        <3>1. i \in 1..Len(S) /\ A[i] = S[i] /\ S[i].tick \in Nat
            BY <1>2, <2>2
        <3>2. CASE j = Len(S) + 1
            <4>1. i = Len(S) \/ S[i].tick < S[Len(S)].tick
                BY <1>1, <1>2, <3>1 DEF Snapped
            <4>2. S[Len(S)].tick \in Nat
                BY <1>1, <1>2
            <4> QED
                BY <1>2, <3>1, <3>2, <4>1, <4>2
        <3>3. CASE j # Len(S) + 1
            <4>1. j \in 1..Len(S)
                BY <1>2, <3>3
            <4> QED
                BY <1>2, <2>2, <3>1, <4>1 DEF Snapped
        <3> QED
            BY <3>2, <3>3
    <2> QED
        BY <1>1, <1>2, <1>3, <2>1, <2>2 DEF Snapped
<1>5. CASE Len(A) > MaxSnapshots
    <2>0. MaxSnapshots \in Nat \ {0}
        BY SessionAssumption
    <2>1. Kept(A) = Tail(A) /\ Kept(B) = Tail(B)
        BY <1>2, <1>3, <1>5 DEF Kept
    <2>2. /\ IsSeq(Tail(A)) /\ Len(Tail(A)) = Len(S) /\ \A i \in 1..Len(S) : Tail(A)[i] = A[i + 1]
        BY <1>1, <1>2, Tailed
    <2>3. /\ IsSeq(Tail(B)) /\ Len(Tail(B)) = Len(S) /\ \A i \in 1..Len(S) : Tail(B)[i] = B[i + 1]
        BY <1>1, <1>2, <1>3, Tailed
    <2>4. \A i \in 1..Len(S) : i + 1 \in 1..Len(A)
        BY <1>2
    <2>5. Snapped(P, Tail(A), Tail(B))
        <3>1. ASSUME NEW i \in 1..Len(S)
              PROVE  /\ AtMoment(P, Tail(A)[i]) /\ Tail(A)[i].on
                     /\ Tail(B)[i] = [tick |-> Tail(A)[i].tick, frames |-> P[Tail(A)[i].tick + 1].frames]
            BY <1>4, <2>2, <2>3, <2>4 DEF Snapped
        <3>2. ASSUME NEW i \in 1..Len(S), NEW j \in 1..Len(S), i < j
              PROVE  Tail(A)[i].tick < Tail(A)[j].tick
            <4>1. i + 1 < j + 1 /\ i + 1 \in 1..Len(A) /\ j + 1 \in 1..Len(A)
                BY <1>2, <2>4, <3>2
            <4>2. A[i + 1].tick < A[j + 1].tick
                BY <1>4, <4>1 DEF Snapped
            <4> QED
                BY <2>2, <4>2
        <3> QED
            BY <1>1, <2>2, <2>3, <3>1, <3>2 DEF Snapped
    <2>6. Tail(A)[Len(S)] = M
        BY <1>1, <1>2, <2>2
    <2> QED
        BY <2>1, <2>2, <2>5, <2>6 DEF A, B
<1>6. CASE ~(Len(A) > MaxSnapshots)
    <2>1. Kept(A) = A /\ Kept(B) = B
        BY <1>2, <1>3, <1>6 DEF Kept
    <2> QED
        BY <1>2, <1>4, <2>1 DEF A, B
<1> QED
    BY <1>5, <1>6

LEMMA Least ==
    ASSUME NEW S \in SUBSET Nat, S # {}
    PROVE  \E n \in S : \A m \in S : n <= m
<1> DEFINE R == StrictSubsetOrdering(Nat)
           F == FiniteSubsetsOf(Nat)
           I == {1 .. n : n \in S}
<1>1. IsWellFoundedOn(R, F)
    BY FS_StrictSubsetOrderingWellFounded
<1>2. I \subseteq F /\ I # {}
    <2>1. \A n \in Nat : 1 .. n \in FiniteSubsetsOf(Nat)
        BY FS_Interval DEF FiniteSubsetsOf
    <2> QED
        BY <2>1
<1>3. \E x \in I : \A y \in I : <<y, x>> \notin R
    <2> HIDE DEF R, F, I
    <2> QED
        BY <1>1, <1>2, WFMin
<1>4. PICK n \in S : \A m \in S : <<1 .. m, 1 .. n>> \notin R
    BY <1>3
<1>5. ASSUME NEW m \in S, m < n PROVE FALSE
    <2>1. n \in 1 .. n /\ n \notin 1 .. m
        BY <1>5
    <2>2. 1 .. m \subseteq 1 .. n /\ 1 .. m # 1 .. n /\ 1 .. m \subseteq Nat /\ 1 .. n \subseteq Nat
        BY <1>5, <2>1
    <2>3. <<1 .. m, 1 .. n>> \in R
        BY <2>2, Zenon DEF StrictSubsetOrdering
    <2> QED
        BY <1>4, <2>3
<1> QED
    BY <1>4, <1>5

(* Of some numbers that are at most N, one is the greatest.                 *)
LEMMA Greatest ==
    ASSUME NEW N \in Nat, NEW S \in SUBSET (0..N), S # {}
    PROVE  \E n \in S : \A m \in S : m <= n
<1>1. {N - i : i \in S} \in SUBSET Nat /\ {N - i : i \in S} # {}
    <2>1. \A i \in S : N - i \in Nat
        OBVIOUS
    <2>2. PICK i : i \in S
        OBVIOUS
    <2> QED
        BY <2>1, <2>2
<1>2. PICK x \in {N - i : i \in S} : \A y \in {N - i : i \in S} : x <= y
    BY <1>1, Least
<1>3. PICK n \in S : x = N - n
    BY <1>2
<1>4. ASSUME NEW m \in S PROVE m <= n
    <2>1. N - n <= N - m
        BY <1>2, <1>3
    <2> QED
        BY <2>1
<1> QED
    BY <1>4

(* Every snapshot is of a running machine at a moment of the history.       *)
LEMMA SnapshotsKnown ==
    ASSUME NEW P, Told(P), NEW S, NEW K, Snapped(P, S, K)
    PROVE  /\ Len(S) \in Nat \ {0} /\ S # <<>>
           /\ \A i \in 1..Len(S) : S[i].tick \in Nat /\ Formed(S[i]) /\ S[i].on /\ AtMoment(P, S[i])
           /\ \A i \in 1..Len(S) : S[1].tick <= S[i].tick
<1>1. IsSeq(S) /\ Len(S) > 0 /\ Len(S) \in Nat /\ Len(<<>>) = 0
    BY Appended DEF Snapped
<1>2. ASSUME NEW i \in 1..Len(S)
      PROVE  S[i].tick \in Nat /\ Formed(S[i]) /\ S[i].on /\ AtMoment(P, S[i])
    <2>1. AtMoment(P, S[i])
        BY DEF Snapped
    <2>2. PICK j \in 1..Len(P) : S[i] = P[j].m
        BY <2>1 DEF AtMoment
    <2>3. Moment(P[j])
        BY <2>2 DEF Told
    <2>4. S[i].on
        BY DEF Snapped
    <2> QED
        BY <2>1, <2>2, <2>3, <2>4 DEF Moment, Formed
<1>3. ASSUME NEW i \in 1..Len(S) PROVE S[1].tick <= S[i].tick
    <2>1. i = 1 \/ 1 < i
        OBVIOUS
    <2>2. 1 \in 1..Len(S)
        BY <1>1
    <2>3. 1 < i => S[1].tick < S[i].tick
        BY <2>2 DEF Snapped
    <2>4. S[1].tick \in Nat /\ S[i].tick \in Nat
        BY <1>2, <2>2
    <2> QED
        BY <2>1, <2>3, <2>4
<1> QED
    BY <1>1, <1>2, <1>3

(* stepOnce keeps the history, the snapshots of it, and where the machine   *)
(* stands in it.                                                            *)
LEMMA StepRecalled ==
    ASSUME Told(past), Stands(past, mach, callStack), Snapped(past, snaps, stacks), TakenInTime,
           StepOnce(Step(mach)), mach.on
    PROVE  /\ Told(past') /\ Stands(past', mach', callStack') /\ Snapped(past', snaps', stacks')
           /\ Longer(past, past')
           /\ Replaying => snaps' = snaps
           /\ ~Replaying /\ ~AtMoment(past', mach') => ~(mach'.tick >= snaps'[Len(snaps')].tick + Interval)
           /\ Waits(mach) => past' = past /\ mach'.tick = mach.tick /\ mach = past[mach.tick + 1].m /\ mach'.pc = mach.pc
           /\ ~Waits(mach) => mach = Rested(past[mach.tick + 1].m) /\ mach'.tick = mach.tick + 1 /\ AtMoment(past', mach')
<1>1. PICK s, frames : s = Step(mach) /\ frames = UpdateCallStack(callStack, mach, s)
    OBVIOUS
<1>2. /\ mach' = s.m /\ callStack' = frames
      /\ past' = IF s.m.tick = Len(past) THEN Append(past, [m |-> s.m, frames |-> frames]) ELSE past
    BY <1>1 DEF StepOnce
<1>3. /\ Told(past') /\ Stands(past', mach', callStack') /\ Longer(past, past')
      /\ Waits(mach) => past' = past /\ mach'.tick = mach.tick /\ mach = past[mach.tick + 1].m /\ mach'.pc = mach.pc
      /\ ~Waits(mach) => mach = Rested(past[mach.tick + 1].m) /\ mach'.tick = mach.tick + 1 /\ AtMoment(past', mach')
    <2>2. PICK Q : Q = past'
        OBVIOUS
    <2>3. Q = Continued(past, s.m, frames)
        BY <1>2, <2>2 DEF Continued
    <2>4. /\ Told(Q) /\ Stands(Q, s.m, frames) /\ Longer(past, Q)
          /\ Waits(mach) => Q = past /\ s.m.tick = mach.tick /\ mach = past[mach.tick + 1].m /\ s.m.pc = mach.pc
          /\ ~Waits(mach) => mach = Rested(past[mach.tick + 1].m) /\ s.m.tick = mach.tick + 1 /\ AtMoment(Q, s.m)
        BY <1>1, <2>3, Forward
    <2> QED
        BY <1>2, <2>2, <2>4
<1>4. Snapped(past', snaps, stacks)
    BY <1>3, StillSnapped
<1>5. mach.tick \in Nat /\ mach.tick + 1 \in 1..Len(past) /\ callStack = past[mach.tick + 1].frames
    BY DEF Stands, Formed
<1>6. /\ Len(snaps) \in Nat \ {0} /\ snaps # <<>>
      /\ \A i \in 1..Len(snaps) : snaps[i].tick \in Nat /\ AtMoment(past', snaps[i])
    BY <1>3, <1>4, SnapshotsKnown
<1>7. Interval \in Nat \ {0}
    BY SessionAssumption
<1>8. CASE ~Replaying /\ SnapshotDue(mach.tick)
    <2>1. PICK k : k = [tick |-> mach.tick, frames |-> callStack]
        OBVIOUS
    <2>2. snaps' = Kept(Append(snaps, mach)) /\ stacks' = Kept(Append(stacks, k))
        BY <1>8, <2>1 DEF StepOnce
    <2>3. AtMoment(past, mach)
        BY <1>8 DEF TakenInTime
    <2>4. AtMoment(past', mach) /\ past'[mach.tick + 1] = past[mach.tick + 1]
        BY <1>3, <2>3 DEF AtMoment, Longer
    <2>5. snaps[Len(snaps)].tick < mach.tick
        <3>1. snaps[Len(snaps)].tick \in Nat /\ mach.tick >= snaps[Len(snaps)].tick + Interval
            BY <1>6, <1>8 DEF SnapshotDue
        <3> QED
            BY <1>5, <1>7, <3>1
    <2>6. k = [tick |-> mach.tick, frames |-> past'[mach.tick + 1].frames]
        BY <1>5, <2>1, <2>4
    <2>7. Snapped(past', snaps', stacks') /\ snaps'[Len(snaps')] = mach
        BY <1>4, <1>5, <1>6, <2>2, <2>4, <2>5, <2>6, SnapshotTaken
    <2>8. ~AtMoment(past', mach') => mach'.tick = mach.tick
        BY <1>3
    <2> QED
        BY <1>3, <1>5, <1>7, <1>8, <2>7, <2>8
<1>9. CASE ~(~Replaying /\ SnapshotDue(mach.tick))
    <2>1. snaps' = snaps /\ stacks' = stacks
        BY <1>9 DEF StepOnce
    <2>2. ~Replaying => ~(mach.tick >= snaps[Len(snaps)].tick + Interval)
        BY <1>9 DEF SnapshotDue
    <2>3. ~AtMoment(past', mach') => mach'.tick = mach.tick
        BY <1>3
    <2> QED
        BY <1>3, <1>4, <1>9, <2>1, <2>2, <2>3
<1> QED
    BY <1>8, <1>9

(* Restoring a snapshot puts the machine and the frames at its moment.      *)
LEMMA GoneBack ==
    ASSUME Told(past), Snapped(past, snaps, stacks), Formed(mach), typed = <<>>,
           NEW tick \in Nat, OldestTick <= tick, NEW next, ReplayTo(tick, next), faithful'
    PROVE  /\ mach'.on = mach.on
           /\ Formed(mach') /\ mach'.tick + 1 \in 1..Len(past)
           /\ mach.on => /\ Stands(past, mach', callStack') /\ AtMoment(past, mach')
                         /\ OldestTick <= mach'.tick /\ mach'.tick <= tick
           /\ cmd' = [next EXCEPT !.mode = "replay", !.tick = tick]
<1>1. /\ Len(snaps) \in Nat \ {0} /\ snaps # <<>>
      /\ \A i \in 1..Len(snaps) : snaps[i].tick \in Nat /\ Formed(snaps[i]) /\ snaps[i].on /\ AtMoment(past, snaps[i])
      /\ \A i \in 1..Len(snaps) : snaps[1].tick <= snaps[i].tick
    BY SnapshotsKnown
<1>2. PICK n : n = Nearest(tick)
    OBVIOUS
<1>3. n \in 1..Len(snaps) /\ snaps[n].tick <= tick
    <2> DEFINE at == {i \in 1..Len(snaps) : snaps[i].tick <= tick}
    <2>1. at \in SUBSET (0..Len(snaps)) /\ 1 \in at
        BY <1>1 DEF OldestTick
    <2>2. \E i \in at : \A j \in at : j <= i
        <3> HIDE DEF at
        <3> QED
            BY <1>1, <2>1, Greatest
    <2>3. n \in at
        BY <1>2, <2>2 DEF Nearest
    <2> QED
        BY <2>3
<1>4. PICK snap : snap = snaps[n]
    OBVIOUS
<1>5. snap.tick \in Nat /\ Formed(snap) /\ snap.on /\ AtMoment(past, snap) /\ OldestTick <= snap.tick /\ snap.tick <= tick
    BY <1>1, <1>3, <1>4 DEF OldestTick
<1>6. mach.depth = 0 /\ snap.depth = 0
    BY <1>2, <1>4 DEF ReplayTo
<1>7. InputsBetween(snap.tick, tick) = {}
    BY DEF InputsBetween
<1>8. /\ mach' = MachineRestored(mach, snap) /\ mach'.on = mach.on
      /\ Formed(mach') /\ mach'.tick + 1 \in 1..Len(past)
    <2>1. mach' = MachineRestored(mach, snap)
        BY <1>2, <1>4, <1>7 DEF ReplayTo, AllTyped
    <2>2. PICK d, v, o : d = mach.depth /\ v = mach.saved /\ o = mach.on /\ mach' = [snap EXCEPT !.depth = d, !.saved = v, !.on = o]
        BY <2>1 DEF MachineRestored
    <2>3. /\ mach' = [x \in MachFields |-> mach'[x]] /\ mach'.tick = snap.tick /\ mach'.on = o
          /\ mach'.depth = d /\ mach'.saved = v
        BY <1>5, <2>2 DEF Formed, MachFields
    <2>4. o \in BOOLEAN /\ d = 0 /\ v = 0
        BY <1>6, <2>2 DEF Formed
    <2>5. Formed(mach')
        BY <1>5, <2>3, <2>4 DEF Formed
    <2> QED
        BY <1>5, <2>1, <2>2, <2>3, <2>5 DEF AtMoment
<1>9. mach.on => mach' = snap
    <2>1. mach.on => mach.saved = snap.saved /\ mach.depth = snap.depth /\ mach.on = snap.on
        BY <1>5, <1>6 DEF Formed
    <2>2. snap = [x \in MachFields |-> snap[x]]
        BY <1>5 DEF Formed
    <2> QED
        BY <1>8, <2>1, <2>2 DEF MachineRestored, MachFields
<1>10. callStack' = past[snap.tick + 1].frames
    <2> DEFINE kept == {i \in 1..Len(stacks) : stacks[i].tick = snap.tick}
    <2>1. /\ Len(stacks) = Len(snaps)
          /\ \A i \in 1..Len(snaps) : stacks[i].tick = snaps[i].tick /\ stacks[i].frames = past[snaps[i].tick + 1].frames
        <3>1. ASSUME NEW i \in 1..Len(snaps)
              PROVE  stacks[i].tick = snaps[i].tick /\ stacks[i].frames = past[snaps[i].tick + 1].frames
            <4>1. stacks[i] = [tick |-> snaps[i].tick, frames |-> past[snaps[i].tick + 1].frames]
                BY DEF Snapped
            <4> QED
                BY <4>1
        <3> QED
            BY <3>1 DEF Snapped
    <2>2. n \in kept
        BY <1>3, <1>4, <2>1
    <2>3. ASSUME NEW i \in kept PROVE i = n
        <3>1. snaps[i].tick = snaps[n].tick /\ i \in 1..Len(snaps)
            BY <1>4, <2>1
        <3>2. ~(i < n) /\ ~(n < i)
            BY <1>1, <1>3, <3>1 DEF Snapped
        <3> QED
            BY <1>1, <1>3, <3>1, <3>2
    <2>4. kept = {n}
        BY <2>2, <2>3
    <2>5. (CHOOSE i \in kept : \A j \in kept : i <= j) = n
        BY <1>1, <1>3, <2>4
    <2>6. callStack' = stacks[CHOOSE i \in kept : \A j \in kept : i <= j].frames
        BY <1>2, <1>4, <2>2 DEF ReplayTo
    <2> HIDE DEF kept
    <2> QED
        BY <1>3, <1>4, <2>1, <2>5, <2>6
<1>11. cmd' = [next EXCEPT !.mode = "replay", !.tick = tick]
    BY DEF ReplayTo
<1>12. ASSUME mach' = snap
       PROVE  /\ Stands(past, mach', callStack') /\ AtMoment(past, mach')
              /\ OldestTick <= mach'.tick /\ mach'.tick <= tick
    <2>1. snap.tick + 1 \in 1..Len(past)
        BY <1>5 DEF AtMoment
    <2> QED
        BY <1>5, <1>10, <1>12, <2>1 DEF Stands
<1> QED
    BY <1>8, <1>9, <1>11, <1>12

-----------------------------------------------------------------------------
(* The invariant of going back                                             *)

(* A command that goes back: where it goes, and what it has found.          *)
Wanted == IF cmd.mode = "scan" THEN cmd.back ELSE cmd.tick
GoingForm ==
    cmd = [mode |-> cmd.mode, tick |-> cmd.tick, next |-> cmd.next, back |-> cmd.back, found |-> cmd.found,
           line |-> cmd.line]
Aims ==
    Replaying =>
      /\ GoingForm
      /\ cmd.mode = "replay" => cmd.next \in {"stop", "line", "breakpoint"}
      /\ cmd.mode = "scan" => cmd.next \in {"line", "breakpoint"}
      /\ Wanted \in Nat
      /\ cmd.next # "stop" =>
           /\ cmd.back \in Nat /\ cmd.back + 1 \in 1..Len(past) /\ OldestTick < cmd.back
           /\ (cmd.found = NoTick \/ cmd.found \in OldestTick..cmd.back - 1)
      /\ cmd.mode = "replay" /\ cmd.next # "stop" => cmd.tick = OldestTick /\ cmd.found = NoTick

(* A breakpoint the scan has gone by, and the last of them.                 *)
Seen(t) ==
    /\ Holds(t) /\ (t < mach.tick \/ (t = mach.tick /\ (t = OldestTick => ~AtMoment(past, mach))))
    /\ t = OldestTick => Waits(past[t + 1].m)
Found ==
    LET seen == {t \in OldestTick..cmd.back - 1 : Seen(t)}
    IN  IF cmd.found = NoTick THEN seen = {} ELSE cmd.found \in seen /\ \A t \in seen : t <= cmd.found

(* A replay goes up to where it is wanted, and stops at that moment.        *)
OnTheWay ==
    Replaying =>
      /\ OldestTick <= mach.tick /\ mach.tick <= Wanted
      /\ mach.tick = Wanted => AtMoment(past, mach)
      /\ cmd.mode = "scan" /\ cmd.next = "breakpoint" => Found

(* The session, as long as nothing was edited and nothing typed: what it    *)
(* remembers is the program's run from the start, and it is somewhere in it.*)
Recalls ==
    /\ Told(past) /\ Snapped(past, snaps, stacks) /\ Aims
    /\ Formed(mach) /\ mach.tick + 1 \in 1..Len(past)
    /\ mach.on => Stands(past, mach, callStack) /\ TakenInTime /\ OnTheWay
Faithfully == started /\ faithful /\ typed = <<>>
HInv ==
    /\ IsSeq(typed)
    /\ configured \/ cmd.mode # "none" => started
    /\ ~started => typed = <<>>
    /\ ~started /\ faithful => Formed(mach) /\ mach.tick = 0 /\ mach.on
    /\ Faithfully => Recalls

(* Nothing the history is about is touched.                                 *)
LEMMA RecallsStay ==
    ASSUME Recalls, UNCHANGED <<mach, callStack, snaps, stacks, past, cmd>>, bps' = bps \/ cmd.mode # "scan"
    PROVE  Recalls'
<1>1. Aims'
    BY DEF Recalls, Aims, GoingForm, Replaying, Wanted, OldestTick
<1>2. TakenInTime => TakenInTime'
    BY DEF TakenInTime, Replaying, SnapshotDue
<1>3. cmd.mode = "scan" /\ Found => Found'
    <2>1. ASSUME bps' = bps, NEW t PROVE Seen(t)' <=> Seen(t)
        BY <2>1 DEF Seen, Holds, Set, OldestTick
    <2> HIDE DEF Seen
    <2> QED
        BY <2>1 DEF Found, OldestTick
<1>4. OnTheWay => OnTheWay'
    BY <1>3 DEF OnTheWay, Replaying, Wanted, OldestTick
<1> QED
    BY <1>1, <1>2, <1>4 DEF Recalls

(* No command that goes back is under way.                                  *)
LEMMA GoesForward ==
    ASSUME Told(past'), Snapped(past', snaps', stacks'), cmd'.mode \notin {"replay", "scan"},
           Formed(mach'), mach'.tick + 1 \in 1..Len(past'),
           mach'.on => /\ Stands(past', mach', callStack')
                       /\ AtMoment(past', mach') \/ ~(mach'.tick >= snaps'[Len(snaps')].tick + Interval)
    PROVE  Recalls'
<1>1. ~Replaying'
    BY DEF Replaying
<1>2. snaps' # <<>>
    BY SnapshotsKnown
<1> QED
    BY <1>1, <1>2 DEF Recalls, Aims, OnTheWay, TakenInTime, SnapshotDue

(* Where nothing but the command changes, to one that does not go back.     *)
LEMMA StaysForward ==
    ASSUME Recalls, cmd.mode \notin {"replay", "scan"}, cmd'.mode \notin {"replay", "scan"},
           UNCHANGED <<mach, callStack, snaps, stacks, past>>
    PROVE  Recalls'
<1>1. mach.on => AtMoment(past, mach) \/ ~(mach.tick >= snaps[Len(snaps)].tick + Interval)
    BY DEF Recalls, TakenInTime, Replaying, SnapshotDue
<1>2. mach'.on => /\ Stands(past', mach', callStack')
                  /\ AtMoment(past', mach') \/ ~(mach'.tick >= snaps'[Len(snaps')].tick + Interval)
    BY <1>1 DEF Recalls
<1>3. Told(past') /\ Snapped(past', snaps', stacks') /\ Formed(mach') /\ mach'.tick + 1 \in 1..Len(past')
    BY DEF Recalls
<1> QED
    BY <1>2, <1>3, GoesForward

(* A command that goes back sets out.                                       *)
LEMMA SetsOut ==
    ASSUME Recalls, typed = <<>>, faithful', UNCHANGED <<snaps, stacks, past>>,
           NEW t \in Nat, OldestTick <= t, NEW n, NEW b, NEW f, NEW l,
           ReplayTo(t, [mode |-> "replay", tick |-> 0, next |-> n, back |-> b, found |-> f, line |-> l]),
           \/ n = "stop"
           \/ /\ n \in {"line", "breakpoint"} /\ t = OldestTick /\ f = NoTick
              /\ b \in Nat /\ b + 1 \in 1..Len(past) /\ OldestTick < b
    PROVE  Recalls' /\ cmd'.tick = t
<1>1. PICK next : next = [mode |-> "replay", tick |-> 0, next |-> n, back |-> b, found |-> f, line |-> l]
    OBVIOUS
<1>2. ReplayTo(t, next)
    BY <1>1
<1>3. Told(past) /\ Snapped(past, snaps, stacks) /\ Formed(mach)
    BY DEF Recalls
<1>4. /\ mach'.on = mach.on
      /\ Formed(mach') /\ mach'.tick + 1 \in 1..Len(past)
      /\ mach.on => /\ Stands(past, mach', callStack') /\ AtMoment(past, mach')
                    /\ OldestTick <= mach'.tick /\ mach'.tick <= t
      /\ cmd' = [next EXCEPT !.mode = "replay", !.tick = t]
    BY <1>2, <1>3, GoneBack
<1>5. cmd' = [mode |-> "replay", tick |-> t, next |-> n, back |-> b, found |-> f, line |-> l]
    BY <1>1, <1>4
<1>6. OldestTick' = OldestTick
    BY DEF OldestTick
<1>7. /\ cmd'.mode = "replay" /\ cmd'.tick = t /\ cmd'.next = n /\ cmd'.back = b /\ cmd'.found = f /\ cmd'.line = l
    BY <1>5
<1>8. Aims'
    <2>1. GoingForm'
        BY <1>5, <1>7 DEF GoingForm
    <2> QED
        BY <1>6, <1>7, <2>1 DEF Aims, Wanted
<1>9. mach.on => OnTheWay'
    BY <1>4, <1>6, <1>7 DEF OnTheWay, Wanted
<1>10. TakenInTime'
    BY <1>7 DEF TakenInTime, Replaying
<1> QED
    BY <1>3, <1>4, <1>7, <1>8, <1>9, <1>10 DEF Recalls

(* What a stopped session is asked to do.                                  *)
LEMMA RunRecalls ==
    ASSUME Recalls, cmd.mode = "none", NEW goal, NEW limit, NEW to, Run(goal, limit, to)
    PROVE  Recalls'
<1>1. cmd'.mode = "run" /\ UNCHANGED <<mach, callStack, snaps, stacks, past>>
    BY DEF Run, Running
<1> QED
    BY <1>1, StaysForward

LEMMA ErrorRecalls ==
    ASSUME Recalls, cmd.mode = "none", Error
    PROVE  Recalls'
<1>1. cmd'.mode = "none" /\ UNCHANGED <<mach, callStack, snaps, stacks, past>>
    BY DEF Error, Idle
<1> QED
    BY <1>1, StaysForward

(* A step of a run, or of one instruction.                                  *)
LEMMA RunsRecalled ==
    ASSUME Recalls, cmd.mode \notin {"replay", "scan"}, cmd'.mode \notin {"replay", "scan"}, mach.on, StepOnce(Step(mach))
    PROVE  Recalls'
<1>1. Told(past) /\ Stands(past, mach, callStack) /\ Snapped(past, snaps, stacks) /\ TakenInTime
    BY DEF Recalls
<1>2. /\ Told(past') /\ Stands(past', mach', callStack') /\ Snapped(past', snaps', stacks')
      /\ ~AtMoment(past', mach') => ~(mach'.tick >= snaps'[Len(snaps')].tick + Interval)
    BY <1>1, StepRecalled DEF Replaying
<1>3. Formed(mach') /\ mach'.tick + 1 \in 1..Len(past')
    BY <1>2 DEF Stands
<1> QED
    BY <1>2, <1>3, GoesForward

LEMMA StepInstructionRecalls ==
    ASSUME Recalls, cmd.mode = "none", StepInstruction
    PROVE  Recalls'
<1>1. cmd' = cmd
    BY DEF StepInstruction
<1>2. CASE mach.on
    <2>1. StepOnce(Step(mach))
        BY <1>2 DEF StepInstruction
    <2> QED
        BY <1>1, <1>2, <2>1, RunsRecalled
<1>3. CASE ~mach.on
    <2>1. UNCHANGED <<mach, callStack, snaps, stacks, past>>
        BY <1>3 DEF StepInstruction
    <2> QED
        BY <1>1, <2>1, StaysForward
<1> QED
    BY <1>2, <1>3

(* Where a command that goes back goes is never before the oldest snapshot. *)
LEMMA BackRecalls ==
    ASSUME Recalls, typed = <<>>, faithful', cmd.mode = "none", NEW tick,
           \/ RunToTick(tick) /\ tick \in Nat
           \/ StepBackInstruction \/ StepBackLine \/ ReverseContinue
    PROVE  Recalls'
<1>0. mach.tick \in Nat /\ mach.tick + 1 \in 1..Len(past) /\ OldestTick \in Nat
    <2>1. snaps[1].tick \in Nat
        BY SnapshotsKnown DEF Recalls
    <2> QED
        BY <2>1 DEF Recalls, Formed, OldestTick
<1>1. ASSUME NEW t \in Nat, RunToTick(t) PROVE Recalls'
    <2>1. CASE t < OldestTick
        BY <1>1, <2>1, ErrorRecalls DEF RunToTick
    <2>2. CASE ~(t < OldestTick)
        <3>1. ReplayTo(t, Going("stop", NoTick)) /\ UNCHANGED <<snaps, stacks, past>>
            BY <1>1, <2>2 DEF RunToTick
        <3>2. ReplayTo(t, [mode |-> "replay", tick |-> 0, next |-> "stop", back |-> NoTick, found |-> NoTick, line |-> 0])
            BY <3>1 DEF Going
        <3>3. OldestTick <= t
            BY <1>0, <2>2
        <3> QED
            BY <3>1, <3>2, <3>3, SetsOut
    <2> QED
        BY <2>1, <2>2
<1>2. ASSUME NEW what \in {"line", "breakpoint"}, Scan(what) PROVE Recalls'
    <2>1. CASE mach.tick <= OldestTick
        <3>1. UNCHANGED <<mach, callStack, snaps, stacks, past, cmd>>
            BY <1>2, <2>1 DEF Scan
        <3> QED
            BY <3>1, StaysForward
    <2>2. CASE ~(mach.tick <= OldestTick)
        <3>1. PICK line : line = Listing[mach.pc].line
            OBVIOUS
        <3>2. [Going(what, mach.tick) EXCEPT !.line = line]
                = [mode |-> "replay", tick |-> 0, next |-> what, back |-> mach.tick, found |-> NoTick, line |-> line]
            BY DEF Going
        <3>3. ReplayTo(OldestTick, [Going(what, mach.tick) EXCEPT !.line = line]) /\ UNCHANGED <<snaps, stacks, past>>
            BY <1>2, <2>2, <3>1 DEF Scan
        <3>4. ReplayTo(OldestTick, [mode |-> "replay", tick |-> 0, next |-> what, back |-> mach.tick, found |-> NoTick, line |-> line])
            BY <3>2, <3>3
        <3>5. OldestTick < mach.tick /\ OldestTick <= OldestTick
            BY <1>0, <2>2
        <3> QED
            BY <1>0, <3>3, <3>4, <3>5, SetsOut
    <2> QED
        BY <2>1, <2>2
<1>3. CASE StepBackInstruction
    <2>1. CASE mach.tick = 0
        <3>1. UNCHANGED <<mach, callStack, snaps, stacks, past, cmd>>
            BY <1>3, <2>1 DEF StepBackInstruction
        <3> QED
            BY <3>1, StaysForward
    <2>2. CASE mach.tick # 0
        <3>1. RunToTick(mach.tick - 1) /\ mach.tick - 1 \in Nat
            BY <1>0, <1>3, <2>2 DEF StepBackInstruction
        <3> QED
            BY <1>1, <3>1
    <2> QED
        BY <2>1, <2>2
<1> QED
    BY <1>1, <1>2, <1>3 DEF StepBackLine, ReverseContinue

LEMMA BeginRecalls ==
    ASSUME cmd.mode = "none", NEW m, NEW stopOnEntry, Begin(m, stopOnEntry), Formed(m), m.tick = 0, m.on, mach' = m
    PROVE  Recalls' /\ started' = TRUE /\ typed' = <<>> /\ cmd'.mode \in {"none", "run"}
<1>1. PICK frames : frames = ResetCallStack(m)
    OBVIOUS
<1>2. PICK p, k : p = [m |-> m, frames |-> frames] /\ k = [tick |-> 0, frames |-> frames]
    OBVIOUS
<1>3. /\ callStack' = frames /\ snaps' = <<m>> /\ stacks' = <<k>> /\ past' = <<p>>
      /\ started' = TRUE /\ typed' = <<>>
    BY <1>1, <1>2 DEF Begin
<1>4. cmd'.mode \in {"none", "run"}
    BY DEF Begin, Running
<1>5. \A x : IsSeq(<<x>>) /\ Len(<<x>>) = 1 /\ <<x>>[1] = x
    <2>1. ASSUME NEW x PROVE <<x>> \in Seq({x})
        OBVIOUS
    <2> QED
        BY <2>1 DEF IsSeq
<1>6. AtMoment(<<p>>, m) /\ 1 \in 1..Len(<<p>>) /\ <<p>>[1] = p /\ p.m = m /\ p.frames = frames
    BY <1>2, <1>5 DEF AtMoment
<1>7. Told(<<p>>)
    <2>1. Moment(p) /\ p.m.tick = 1 - 1
        BY <1>2 DEF Moment
    <2> QED
        BY <1>5, <2>1 DEF Told
<1>8. Snapped(<<p>>, <<m>>, <<k>>)
    BY <1>2, <1>5, <1>6 DEF Snapped
<1>9. Stands(<<p>>, m, frames)
    BY <1>6 DEF Stands
<1>10. m.tick + 1 \in 1..Len(<<p>>)
    BY <1>6
<1> QED
    BY <1>3, <1>4, <1>6, <1>7, <1>8, <1>9, <1>10, GoesForward

(* One turn of the loop of the command in progress.                         *)
LEMMA RunUntilRecalls ==
    ASSUME Recalls, CommandOK, RunUntil
    PROVE  Recalls'
<1>1. cmd.mode = "run" /\ cmd.mode \notin {"replay", "scan"}
    BY DEF RunUntil
<1>2. CASE cmd' = Idle /\ UNCHANGED <<mach, callStack, snaps, stacks, past>>
    <2>1. cmd'.mode \notin {"replay", "scan"}
        BY <1>2 DEF Idle
    <2> QED
        BY <1>1, <1>2, <2>1, StaysForward
<1>3. CASE mach.on /\ StepOnce(Step(mach)) /\ (cmd' = Idle \/ cmd' = [cmd EXCEPT !.left = @ - 1, !.first = FALSE])
    <2>1. cmd'.mode \notin {"replay", "scan"}
        <3>1. CASE cmd' = Idle
            BY <3>1 DEF Idle
        <3>2. CASE cmd' = [cmd EXCEPT !.left = @ - 1, !.first = FALSE]
            <4>1. cmd'.mode = cmd.mode
                BY <3>2 DEF CommandOK
            <4> QED
                BY <1>1, <4>1
        <3> QED
            BY <1>3, <3>1, <3>2
    <2> QED
        BY <1>1, <1>3, <2>1, RunsRecalled
<1> QED
    BY <1>2, <1>3 DEF RunUntil, Stopped

(* Running again from a snapshot meets the moments there were.              *)
LEMMA ReplayStepRecalls ==
    ASSUME Recalls, ReplayStep
    PROVE  Recalls'
<1>1. cmd.mode = "replay" /\ Replaying /\ mach.on /\ mach.tick < cmd.tick /\ cmd' = cmd /\ StepOnce(Step(mach))
    BY DEF ReplayStep, Replaying
<1>2. /\ Told(past) /\ Stands(past, mach, callStack) /\ Snapped(past, snaps, stacks) /\ TakenInTime
      /\ Aims /\ OnTheWay
    BY <1>1 DEF Recalls
<1>3. /\ Told(past') /\ Stands(past', mach', callStack') /\ Snapped(past', snaps', stacks') /\ Longer(past, past')
      /\ snaps' = snaps
      /\ Waits(mach) => mach'.tick = mach.tick
      /\ ~Waits(mach) => mach'.tick = mach.tick + 1 /\ AtMoment(past', mach')
    BY <1>1, <1>2, StepRecalled
<1>4. OldestTick' = OldestTick
    BY <1>3 DEF OldestTick
<1>5. Aims'
    <2>1. GoingForm' <=> GoingForm
        BY <1>1 DEF GoingForm
    <2> QED
        BY <1>1, <1>2, <1>3, <1>4, <2>1 DEF Aims, Replaying, Wanted, Longer
<1>6. OnTheWay'
    <2>1. mach.tick \in Nat /\ OldestTick \in Nat /\ cmd.tick \in Nat
        <3>1. snaps[1].tick \in Nat
            BY <1>2, SnapshotsKnown
        <3> QED
            BY <1>1, <1>2, <3>1 DEF Stands, Formed, OldestTick, Aims, Wanted
    <2>2. OldestTick <= mach.tick
        BY <1>1, <1>2 DEF OnTheWay
    <2> QED
        BY <1>1, <1>3, <1>4, <2>1, <2>2 DEF OnTheWay, Wanted
<1>7. Formed(mach') /\ mach'.tick + 1 \in 1..Len(past')
    BY <1>3 DEF Stands
<1>8. TakenInTime'
    BY <1>1 DEF TakenInTime, Replaying
<1> QED
    BY <1>3, <1>5, <1>6, <1>7, <1>8 DEF Recalls

LEMMA ReplayEndsRecalls ==
    ASSUME Recalls, ReplayEnds
    PROVE  Recalls'
<1>1. /\ cmd.mode = "replay" /\ Replaying /\ ~(mach.tick < cmd.tick /\ mach.on)
      /\ UNCHANGED <<mach, callStack, snaps, stacks, past, bps>>
    BY DEF ReplayEnds, Replaying
<1>2. /\ Told(past) /\ Snapped(past, snaps, stacks) /\ Aims /\ Formed(mach) /\ mach.tick + 1 \in 1..Len(past)
      /\ mach.on => Stands(past, mach, callStack) /\ OnTheWay
    BY <1>1 DEF Recalls
<1>3. mach.on => mach.tick = cmd.tick /\ AtMoment(past, mach)
    <2>1. mach.tick \in Nat /\ cmd.tick \in Nat
        BY <1>1, <1>2 DEF Formed, Aims, Wanted
    <2> QED
        BY <1>1, <1>2, <2>1 DEF OnTheWay, Wanted
<1>4. OldestTick' = OldestTick
    BY <1>1 DEF OldestTick
<1>5. CASE cmd.next = "stop"
    <2>1. cmd'.mode = "none"
        BY <1>5 DEF ReplayEnds, Idle
    <2> QED
        BY <1>1, <1>2, <1>3, <2>1, GoesForward
<1>6. CASE cmd.next # "stop"
    <2>1. cmd' = [cmd EXCEPT !.mode = "scan"]
        BY <1>6 DEF ReplayEnds
    <2>2. cmd = [mode |-> cmd.mode, tick |-> cmd.tick, next |-> cmd.next, back |-> cmd.back, found |-> cmd.found,
                 line |-> cmd.line]
        BY <1>1, <1>2 DEF Aims, GoingForm
    <2>3. cmd' = [mode |-> "scan", tick |-> cmd.tick, next |-> cmd.next, back |-> cmd.back, found |-> cmd.found,
                  line |-> cmd.line]
        BY <2>1, <2>2
    <2>4. /\ cmd'.mode = "scan" /\ cmd'.tick = cmd.tick /\ cmd'.next = cmd.next /\ cmd'.back = cmd.back
          /\ cmd'.found = cmd.found /\ cmd'.line = cmd.line
        BY <2>3
    <2>5. /\ cmd.next \in {"line", "breakpoint"} /\ cmd.back \in Nat /\ cmd.back + 1 \in 1..Len(past)
          /\ OldestTick < cmd.back /\ cmd.tick = OldestTick /\ cmd.found = NoTick
        BY <1>1, <1>2, <1>6 DEF Aims
    <2>6. Aims'
        <3>1. GoingForm'
            BY <2>3, <2>4 DEF GoingForm
        <3> QED
            BY <1>1, <1>4, <2>4, <2>5, <3>1 DEF Aims, Wanted
    <2>7. ASSUME mach.on PROVE Found'
        <3>1. mach.tick = OldestTick /\ AtMoment(past, mach)
            BY <1>3, <2>5, <2>7
        <3>2. ASSUME NEW t \in OldestTick..cmd.back - 1, Seen(t)' PROVE FALSE
            <4>1. t < mach.tick \/ (t = mach.tick /\ (t = OldestTick => ~AtMoment(past, mach)))
                BY <1>1, <1>4, <3>2 DEF Seen
            <4>2. t >= OldestTick /\ mach.tick \in Nat
                BY <1>2 DEF Formed
            <4> QED
                BY <3>1, <4>1, <4>2
        <3>3. cmd'.found = NoTick /\ cmd'.back = cmd.back
            BY <2>4, <2>5
        <3> HIDE DEF Seen
        <3>4. {t \in OldestTick'..cmd'.back - 1 : Seen(t)'} = {}
            BY <1>4, <3>2, <3>3
        <3> QED
            BY <3>3, <3>4 DEF Found
    <2>8. mach.on => OnTheWay'
        <3>1. mach.on => mach.tick = OldestTick /\ mach.tick \in Nat
            BY <1>2, <1>3, <2>5 DEF Formed
        <3> QED
            BY <1>1, <1>4, <2>4, <2>5, <2>7, <3>1 DEF OnTheWay, Wanted
    <2>9. TakenInTime'
        BY <2>4 DEF TakenInTime, Replaying
    <2> QED
        BY <1>1, <1>2, <2>6, <2>8, <2>9 DEF Recalls
<1> QED
    BY <1>5, <1>6

LEMMA ScanEndsRecalls ==
    ASSUME Recalls, typed = <<>>, faithful', ScanEnds
    PROVE  Recalls' /\ cmd'.tick = (IF cmd.found = NoTick THEN cmd.back ELSE cmd.found)
<1>1. PICK to : to = IF cmd.found = NoTick THEN cmd.back ELSE cmd.found
    OBVIOUS
<1>2. PICK found : found = IF cmd.next = "breakpoint" THEN to ELSE NoTick
    OBVIOUS
<1>3. /\ cmd.mode = "scan" /\ UNCHANGED <<snaps, stacks, past>>
      /\ ReplayTo(to, [Going("stop", NoTick) EXCEPT !.found = found])
    BY <1>1, <1>2 DEF ScanEnds
<1>4. ReplayTo(to, [mode |-> "replay", tick |-> 0, next |-> "stop", back |-> NoTick, found |-> found, line |-> 0])
    BY <1>3 DEF Going
<1>5. to \in Nat /\ OldestTick <= to
    <2>1. snaps[1].tick \in Nat
        BY SnapshotsKnown DEF Recalls
    <2>2. /\ cmd.back \in Nat /\ OldestTick < cmd.back
          /\ cmd.found = NoTick \/ cmd.found \in OldestTick..cmd.back - 1
        BY <1>3 DEF Recalls, Aims, Replaying
    <2> QED
        BY <1>1, <2>1, <2>2 DEF OldestTick
<1> QED
    BY <1>1, <1>3, <1>4, <1>5, SetsOut

(* A step of the search for a breakpoint: what it has found is still the    *)
(* last of those it has gone by.                                            *)
LEMMA FoundOnward ==
    ASSUME Recalls, ScanStep, cmd.next = "breakpoint"
    PROVE  Found'
<1>1. cmd.mode = "scan" /\ Replaying /\ mach.on /\ mach.tick < cmd.back /\ StepOnce(Step(mach)) /\ bps' = bps
    BY DEF ScanStep, Replaying
<1>2. /\ Told(past) /\ Stands(past, mach, callStack) /\ Snapped(past, snaps, stacks) /\ TakenInTime
      /\ Aims /\ OnTheWay
    BY <1>1 DEF Recalls
<1>3. /\ Longer(past, past') /\ snaps' = snaps /\ mach' = Step(mach).m
      /\ Waits(mach) => mach'.tick = mach.tick /\ mach = past[mach.tick + 1].m /\ mach'.pc = mach.pc
      /\ ~Waits(mach) => /\ mach = Rested(past[mach.tick + 1].m) /\ mach'.tick = mach.tick + 1
                         /\ AtMoment(past', mach')
    BY <1>1, <1>2, StepRecalled DEF StepOnce
<1>4. PICK o, b, f, t, t2 : /\ o = OldestTick /\ b = cmd.back /\ f = cmd.found /\ t = mach.tick /\ t2 = mach'.tick
    OBVIOUS
<1>5. /\ OldestTick' = o /\ o \in Nat /\ b \in Nat /\ t \in Nat /\ t2 \in Nat /\ o <= t /\ t < b /\ b + 1 \in 1..Len(past)
      /\ Len(past) \in Nat /\ t + 1 \in 1..Len(past)
      /\ f = NoTick \/ f \in o..b - 1
    <2>1. snaps[1].tick \in Nat
        BY <1>2, SnapshotsKnown
    <2>2. t \in Nat /\ t + 1 \in 1..Len(past)
        BY <1>2, <1>4 DEF Stands, Formed
    <2>3. t2 \in Nat
        BY <1>3, <1>4, <2>2
    <2>4. b \in Nat /\ b + 1 \in 1..Len(past) /\ (f = NoTick \/ f \in o..b - 1)
        BY <1>1, <1>2, <1>4 DEF Aims
    <2>5. o <= t
        BY <1>1, <1>2, <1>4 DEF OnTheWay
    <2> QED
        BY <1>1, <1>3, <1>4, <2>1, <2>2, <2>3, <2>4, <2>5 DEF OldestTick, Longer
<1>6. ASSUME NEW u \in o..b - 1
      PROVE  /\ past'[u + 1] = past[u + 1] /\ (Holds(u)' <=> Holds(u))
             /\ ~Waits(Rested(past[u + 1].m))
    <2>1. u + 1 \in 1..Len(past) - 1 /\ u + 1 \in 1..Len(past)
        BY <1>5
    <2>2. past'[u + 1] = past[u + 1]
        BY <1>3, <2>1 DEF Longer
    <2>3. ~Waits(Rested(past[u + 1].m))
        BY <1>2, <2>1 DEF Told
    <2>4. Holds(u)' <=> Holds(u)
        BY <1>1, <2>2 DEF Holds, Set
    <2> QED
        BY <2>2, <2>3, <2>4
<1>7. PICK W, S, S2 : /\ W = [u \in o..b - 1 |-> Waits(past[u + 1].m)]
                      /\ S = {u \in o..b - 1 : Seen(u)} /\ S2 = {u \in o..b - 1 : Seen(u)'}
    OBVIOUS
<1>8. IF f = NoTick THEN S = {} ELSE f \in S /\ \A u \in S : u <= f
    <2>1. Found
        BY <1>1, <1>2 DEF OnTheWay
    <2> QED
        BY <1>4, <1>7, <2>1 DEF Found
<1>9. ASSUME NEW u \in o..b - 1
      PROVE  /\ u \in S <=> /\ Holds(u) /\ (u < t \/ (u = t /\ (u = o => ~AtMoment(past, mach))))
                            /\ u = o => Waits(past[u + 1].m)
             /\ u \in S2 <=> /\ Holds(u) /\ (u < t2 \/ (u = t2 /\ (u = o => ~AtMoment(past', mach'))))
                             /\ u = o => Waits(past[u + 1].m)
    <2>1. Seen(u) <=> /\ Holds(u) /\ (u < t \/ (u = t /\ (u = o => ~AtMoment(past, mach))))
                      /\ u = o => Waits(past[u + 1].m)
        BY <1>4 DEF Seen
    <2>2. Seen(u)' <=> /\ Holds(u) /\ (u < t2 \/ (u = t2 /\ (u = o => ~AtMoment(past', mach'))))
                       /\ u = o => Waits(past[u + 1].m)
        BY <1>4, <1>5, <1>6 DEF Seen
    <2> QED
        BY <1>7, <2>1, <2>2
<1>10. \E g : /\ g = (IF t2 < b /\ Holds(t2) THEN t2 ELSE f) /\ cmd'.found = g /\ cmd'.back = b
    <2>1. cmd' = IF t2 < b /\ Matches(mach') THEN [cmd EXCEPT !.found = t2] ELSE cmd
        BY <1>3, <1>4 DEF ScanStep
    <2>2. t2 < b => (Matches(mach') <=> Holds(t2))
        <3>1. mach'.pc = past[t2 + 1].m.pc \/ t2 >= b
            <4>1. CASE Waits(mach)
                BY <1>3, <1>4, <4>1
            <4>2. CASE ~Waits(mach)
                <5>1. t2 < b => t2 \in o..b - 1
                    BY <1>3, <1>4, <1>5, <4>2
                <5>2. t2 < b => past'[t2 + 1] = past[t2 + 1]
                    BY <1>6, <5>1
                <5> QED
                    BY <1>3, <1>4, <1>5, <4>2, <5>2 DEF AtMoment
            <4> QED
                BY <4>1, <4>2
        <3> QED
            BY <1>5, <3>1 DEF Matches, Holds
    <2>3. cmd = [mode |-> cmd.mode, tick |-> cmd.tick, next |-> cmd.next, back |-> cmd.back, found |-> cmd.found,
                 line |-> cmd.line]
        BY <1>1, <1>2 DEF Aims, GoingForm
    <2>4. [cmd EXCEPT !.found = t2].found = t2 /\ [cmd EXCEPT !.found = t2].back = cmd.back
        BY <2>3
    <2> QED
        BY <1>4, <2>1, <2>2, <2>4
<1>11. PICK g : /\ g = (IF t2 < b /\ Holds(t2) THEN t2 ELSE f) /\ cmd'.found = g /\ cmd'.back = b
    BY <1>10
<1>12. IF g = NoTick THEN S2 = {} ELSE g \in S2 /\ \A u \in S2 : u <= g
    <2>1. S \subseteq o..b - 1 /\ S2 \subseteq o..b - 1 /\ NoTick \notin Nat /\ NoTick = -1
        BY <1>7 DEF NoTick
    <2>2. CASE Waits(mach)
        <3>1. t2 = t /\ mach = past[t + 1].m /\ t \in o..b - 1
            BY <1>3, <1>4, <1>5, <2>2
        <3>2. Waits(past[t + 1].m) /\ mach' = Rested(past[t + 1].m) /\ ~Waits(mach')
            BY <1>3, <1>6, <2>2, <3>1 DEF Rested
        <3>3. ~AtMoment(past', mach')
            BY <1>4, <1>6, <3>1, <3>2 DEF AtMoment
        <3>4. S2 = IF Holds(t) THEN S \cup {t} ELSE S
            <4>1. ASSUME NEW u \in o..b - 1 PROVE u \in S2 <=> (u \in S \/ (u = t /\ Holds(t)))
                BY <1>9, <3>1, <3>2, <3>3
            <4> QED
                BY <2>1, <3>1, <4>1
        <3>5. \A u \in S : u <= t
            BY <1>5, <1>9, <2>1
        <3>6. Holds(t) => g = t
            BY <1>5, <1>11, <3>1
        <3>7. ~Holds(t) => g = f
            BY <1>11, <3>1
        <3>8. CASE Holds(t)
            BY <1>5, <2>1, <3>4, <3>5, <3>6, <3>8
        <3>9. CASE ~Holds(t)
            BY <1>8, <3>4, <3>7, <3>9
        <3> QED
            BY <3>8, <3>9
    <2>3. CASE ~Waits(mach)
        <3>1. t2 = t + 1
            BY <1>3, <1>4, <2>3
        <3>2. t \in S2 <=> t \in S
            <4>1. t \in o..b - 1
                BY <1>5
            <4>2. Waits(past[t + 1].m) => ~AtMoment(past, mach)
                BY <1>4, <2>3 DEF AtMoment
            <4> QED
                BY <1>5, <1>9, <3>1, <4>1, <4>2
        <3>3. ASSUME NEW u \in o..b - 1, u # t, u # t2 PROVE u \in S2 <=> u \in S
            BY <1>5, <1>9, <3>1, <3>3
        <3>4. t2 \notin S
            BY <1>5, <1>9, <2>1, <3>1
        <3>5. t2 \in S2 <=> t2 < b /\ Holds(t2)
            BY <1>5, <1>9, <2>1, <3>1
        <3>6. S2 = IF t2 < b /\ Holds(t2) THEN S \cup {t2} ELSE S
            <4>1. ASSUME NEW u PROVE u \in S2 <=> u \in S \/ (u = t2 /\ t2 < b /\ Holds(t2))
                <5>1. CASE u \in o..b - 1
                    BY <3>2, <3>3, <3>4, <3>5, <5>1
                <5>2. CASE u \notin o..b - 1
                    BY <2>1, <3>5, <5>2
                <5> QED
                    BY <5>1, <5>2
            <4> QED
                BY <4>1
        <3>7. \A u \in S : u <= t2
            BY <1>5, <1>9, <2>1, <3>1
        <3>8. CASE t2 < b /\ Holds(t2)
            BY <1>5, <1>11, <2>1, <3>6, <3>7, <3>8
        <3>9. CASE ~(t2 < b /\ Holds(t2))
            BY <1>8, <1>11, <3>6, <3>9
        <3> QED
            BY <3>8, <3>9
    <2> QED
        BY <2>2, <2>3
<1> HIDE DEF Seen
<1> QED
    BY <1>5, <1>7, <1>11, <1>12 DEF Found

LEMMA ScanStepRecalls ==
    ASSUME Recalls, ScanStep
    PROVE  Recalls'
<1>1. cmd.mode = "scan" /\ Replaying /\ mach.on /\ mach.tick < cmd.back /\ StepOnce(Step(mach))
    BY DEF ScanStep, Replaying
<1>2. /\ Told(past) /\ Stands(past, mach, callStack) /\ Snapped(past, snaps, stacks) /\ TakenInTime
      /\ Aims /\ OnTheWay
    BY <1>1 DEF Recalls
<1>3. /\ Told(past') /\ Stands(past', mach', callStack') /\ Snapped(past', snaps', stacks') /\ Longer(past, past')
      /\ snaps' = snaps /\ mach' = Step(mach).m
      /\ Waits(mach) => mach'.tick = mach.tick
      /\ ~Waits(mach) => mach'.tick = mach.tick + 1 /\ AtMoment(past', mach')
    BY <1>1, <1>2, StepRecalled DEF StepOnce
<1>4. OldestTick' = OldestTick
    BY <1>3 DEF OldestTick
<1>5. /\ mach.tick \in Nat /\ OldestTick \in Nat /\ cmd.back \in Nat /\ OldestTick <= mach.tick
      /\ cmd.next \in {"line", "breakpoint"} /\ cmd.back + 1 \in 1..Len(past) /\ OldestTick < cmd.back
      /\ cmd.found = NoTick \/ cmd.found \in OldestTick..cmd.back - 1
    <2>1. snaps[1].tick \in Nat
        BY <1>2, SnapshotsKnown
    <2>2. OldestTick <= mach.tick
        BY <1>1, <1>2 DEF OnTheWay
    <2> QED
        BY <1>1, <1>2, <2>1, <2>2 DEF Stands, Formed, OldestTick, Aims
<1>6. PICK g : /\ cmd' = [mode |-> "scan", tick |-> cmd.tick, next |-> cmd.next, back |-> cmd.back, found |-> g,
                         line |-> cmd.line]
               /\ g = NoTick \/ g \in OldestTick..cmd.back - 1
    <2>1. cmd = [mode |-> "scan", tick |-> cmd.tick, next |-> cmd.next, back |-> cmd.back, found |-> cmd.found,
                 line |-> cmd.line]
        BY <1>1, <1>2 DEF Aims, GoingForm
    <2>2. cmd' = cmd \/ (mach'.tick < cmd.back /\ cmd' = [cmd EXCEPT !.found = mach'.tick])
        BY <1>3 DEF ScanStep
    <2>3. [cmd EXCEPT !.found = mach'.tick]
            = [mode |-> "scan", tick |-> cmd.tick, next |-> cmd.next, back |-> cmd.back, found |-> mach'.tick,
               line |-> cmd.line]
        BY <2>1
    <2>4. mach'.tick < cmd.back => mach'.tick \in OldestTick..cmd.back - 1
        BY <1>3, <1>5
    <2>5. CASE cmd' = cmd
        BY <1>5, <2>1, <2>5
    <2>6. CASE mach'.tick < cmd.back /\ cmd' = [cmd EXCEPT !.found = mach'.tick]
        BY <2>3, <2>4, <2>6
    <2> QED
        BY <2>2, <2>5, <2>6
<1>7. /\ cmd'.mode = "scan" /\ cmd'.tick = cmd.tick /\ cmd'.next = cmd.next /\ cmd'.back = cmd.back
      /\ cmd'.found = g /\ cmd'.line = cmd.line
    BY <1>6
<1>8. Aims'
    <2>1. GoingForm'
        BY <1>6, <1>7 DEF GoingForm
    <2>2. cmd'.back + 1 \in 1..Len(past')
        BY <1>3, <1>5, <1>7 DEF Longer
    <2> QED
        BY <1>4, <1>5, <1>6, <1>7, <2>1, <2>2 DEF Aims, Wanted
<1>9. OnTheWay'
    <2>1. cmd'.next = "breakpoint" => Found'
        BY <1>7, FoundOnward
    <2>2. OldestTick' <= mach'.tick /\ mach'.tick <= cmd'.back /\ (mach'.tick = cmd'.back => AtMoment(past', mach'))
        BY <1>1, <1>3, <1>4, <1>5, <1>7
    <2> QED
        BY <1>7, <2>1, <2>2 DEF OnTheWay, Wanted
<1>10. Formed(mach') /\ mach'.tick + 1 \in 1..Len(past')
    BY <1>3 DEF Stands
<1>11. TakenInTime'
    BY <1>7 DEF TakenInTime, Replaying
<1> QED
    BY <1>3, <1>8, <1>9, <1>10, <1>11 DEF Recalls

LEMMA TurnRecalls ==
    ASSUME Recalls, CommandOK, typed = <<>>, faithful', SessionTurn
    PROVE  Recalls'
BY RunUntilRecalls, ReplayStepRecalls, ReplayEndsRecalls, ScanStepRecalls, ScanEndsRecalls DEF SessionTurn

(* What leaves the session alone, but for the request to pause.             *)
LEMMA SessionRests ==
    ASSUME HInv, UNCHANGED <<mach, callStack, snaps, stacks, typed, bps, started, cmd, past, faithful, configured>>
    PROVE  HInv'
<1>1. Recalls => Recalls'
    BY RecallsStay
<1> QED
    BY <1>1 DEF HInv, Faithfully

LEMMA TurnKeepsHistory ==
    ASSUME HInv, BInv, SessionTurn, configured' = configured
    PROVE  HInv'
<1>1. typed' = typed /\ started' = started /\ (faithful' => faithful) /\ cmd.mode # "none"
    <2>1. CASE RunUntil
        BY <2>1 DEF RunUntil
    <2>2. CASE ReplayStep \/ ReplayEnds \/ ScanStep
        BY <2>2 DEF ReplayStep, ReplayEnds, ScanStep
    <2>3. CASE ScanEnds
        <3>1. \A to, next : ReplayTo(to, next) => (faithful' => faithful)
            BY DEF ReplayTo
        <3> QED
            BY <2>3, <3>1 DEF ScanEnds
    <2> QED
        BY <2>1, <2>2, <2>3 DEF SessionTurn
<1>2. started
    BY <1>1 DEF HInv
<1>3. Faithfully' => Recalls'
    BY <1>1, TurnRecalls DEF HInv, Faithfully, BInv
<1> QED
    BY <1>1, <1>2, <1>3 DEF HInv

LEMMA FreshForm == Formed(FreshMachine) /\ FreshMachine.tick = 0 /\ FreshMachine.on
BY DEF FreshMachine, Formed, MachFields

LEMMA RequestKeepsHistory ==
    ASSUME DInv, BInv, HInv, ConfigurationDone \/ RestartRequest \/ RunRequest \/ BackRequest \/ EditRequest
    PROVE  HInv'
<1>0. cmd.mode = "none" /\ main.request \in Lines
    BY DEF DInv, ServerTypeOK, BInv, CarriedOut, ConfigurationDone, RestartRequest, RunRequest, BackRequest, EditRequest, Asked
<1>1. CASE ConfigurationDone
    <2>0. Start(StopOnEntry) /\ configured' = TRUE
        BY <1>1 DEF ConfigurationDone
    <2>1. CASE started
        <3>1. Error
            BY <2>0, <2>1 DEF Start
        <3>2. Recalls => Recalls'
            BY <1>0, <3>1, ErrorRecalls
        <3>3. UNCHANGED <<typed, started, faithful>>
            BY <3>1 DEF Error
        <3> QED
            BY <2>1, <3>2, <3>3 DEF HInv, Faithfully
    <2>2. CASE ~started
        <3>1. Begin(mach, StopOnEntry) /\ mach' = mach /\ faithful' = faithful
            BY <2>0, <2>2 DEF Start
        <3>2. started' = TRUE /\ typed' = <<>>
            BY <3>1 DEF Begin
        <3>3. faithful => Recalls'
            BY <1>0, <2>2, <3>1, BeginRecalls DEF HInv
        <3> QED
            BY <3>1, <3>2, <3>3 DEF HInv, Faithfully, IsSeq
    <2> QED
        BY <2>1, <2>2
<1>2. CASE RestartRequest
    <2>1. Begin(FreshMachine, StopOnEntry) /\ mach' = FreshMachine
        BY <1>2 DEF RestartRequest, RestartSession
    <2>2. Recalls' /\ started' = TRUE /\ typed' = <<>>
        BY <1>0, <2>1, FreshForm, BeginRecalls
    <2> QED
        BY <2>2 DEF HInv, IsSeq
<1>3. CASE RunRequest
    <2>1. UNCHANGED <<typed, started, faithful, configured>> /\ configured
        BY <1>3 DEF RunRequest, Commanded, Resume, StepOver, StepLine, StepOut, StepInstruction, RunToAddress, Run
    <2>2. Recalls => Recalls'
        <3>1. CASE StepInstruction
            BY <1>0, <3>1, StepInstructionRecalls
        <3>2. CASE Resume \/ StepOver \/ StepLine \/ StepOut \/ RunToAddress(main.request.arg)
            BY <1>0, <3>2, RunRecalls DEF Resume, StepOver, StepLine, StepOut, RunToAddress
        <3> QED
            BY <1>3, <3>1, <3>2 DEF RunRequest
    <2> QED
        BY <2>1, <2>2 DEF HInv, Faithfully
<1>4. CASE BackRequest
    <2>1. UNCHANGED <<typed, started, configured>> /\ (faithful' => faithful) /\ configured
        BY <1>4 DEF BackRequest, Commanded, StepBackLine, StepBackInstruction, ReverseContinue, RunToTick, Scan, Error,
                    ReplayTo
    <2>2. \/ RunToTick(main.request.arg) /\ main.request.arg \in Nat
          \/ StepBackInstruction \/ StepBackLine \/ ReverseContinue
        <3>1. Asked("runToTick") => main.request.arg \in Nat
            BY <1>0, RequestsAssumption DEF Asked, Lines, NoRequest
        <3> QED
            BY <1>4, <3>1 DEF BackRequest
    <2>3. Recalls /\ typed = <<>> /\ faithful' => Recalls'
        BY <1>0, <2>2, BackRecalls
    <2> QED
        BY <2>1, <2>3 DEF HInv, Faithfully
<1>5. CASE EditRequest
    <2>0. configured' = configured
        BY <1>5 DEF EditRequest
    <2>1. ASSUME NEW new, SetBreakpoints(new) PROVE HInv'
        <3>1. UNCHANGED <<mach, callStack, snaps, stacks, typed, started, cmd, past, faithful>>
            BY <2>1 DEF SetBreakpoints
        <3>2. Recalls => Recalls'
            BY <1>0, <3>1, RecallsStay
        <3> QED
            BY <2>0, <3>1, <3>2 DEF HInv, Faithfully
    <2>2. ASSUME NEW pc, SetProgramCounter(pc) PROVE HInv'
        BY <2>0, <2>2 DEF SetProgramCounter, HInv, Faithfully
    <2>3. ASSUME NEW text, PushInput(text) PROVE HInv'
        <3>1. /\ mach' = Typed(mach, text) /\ UNCHANGED <<started, cmd, faithful>>
              /\ typed' = IF started THEN Append(typed, [tick |-> mach.tick, text |-> text]) ELSE typed
            BY <2>3 DEF PushInput
        <3>2. CASE started
            <4>1. IsSeq(typed') /\ typed' # <<>>
                BY <3>1, <3>2, Appended DEF HInv
            <4> QED
                BY <2>0, <3>1, <3>2, <4>1 DEF HInv, Faithfully
        <3>3. CASE ~started
            <4>1. Formed(mach) => Formed(mach') /\ mach'.tick = mach.tick /\ mach'.on = mach.on
                <5>1. PICK i, r : i = Append(mach.input, text) /\ r = [mach EXCEPT !.input = i]
                    OBVIOUS
                <5>2. mach' = [r EXCEPT !.pending = TRUE, !.raised = TRUE]
                    BY <3>1, <5>1 DEF Typed, Raise
                <5>3. Formed(mach) => Formed(r) /\ r.tick = mach.tick /\ r.on = mach.on
                    BY <5>1 DEF Formed, MachFields
                <5>4. Formed(r) => Formed(mach') /\ mach'.tick = r.tick /\ mach'.on = r.on
                    BY <5>2 DEF Formed, MachFields
                <5> QED
                    BY <5>3, <5>4
            <4> QED
                BY <2>0, <3>1, <3>3, <4>1 DEF HInv, Faithfully
        <3> QED
            BY <3>2, <3>3
    <2> QED
        BY <1>5, <2>1, <2>2, <2>3 DEF EditRequest
<1> QED
    BY <1>1, <1>2, <1>3, <1>4, <1>5

LEMMA HistoryStep ==
    ASSUME DInv, BInv, HInv, [DebugNext]_debugVars
    PROVE  HInv'
<1>1. CASE ConfigurationDone \/ RestartRequest \/ RunRequest \/ BackRequest \/ EditRequest
    BY <1>1, RequestKeepsHistory
<1>2. CASE Busy
    BY <1>2, TurnKeepsHistory DEF Busy, threads
<1>3. CASE UNCHANGED debugVars \/ Client
    BY <1>3, SessionRests DEF debugVars, sessionVars, Client, ClosePipe, Ask, threads
<1>4. CASE TellSession
    BY <1>4, SessionRests DEF TellSession
<1>5. CASE ReadLine \/ ReadEnd \/ TakeControl \/ Push \/ CloseInput \/ Notify
    BY <1>5, SessionRests DEF ReadLine, ReadEnd, TakeControl, Push, CloseInput, Notify, sessionVars
<1>6. CASE Look \/ Sleep \/ WakeForNothing \/ Terminate \/ OnlyAnswer \/ Destroy \/ ReportStop
    BY <1>6, SessionRests DEF Look, Sleep, WakeForNothing, Terminate, OnlyAnswer, Destroy, ReportStop, sessionVars
<1> QED
    BY <1>1, <1>2, <1>3, <1>4, <1>5, <1>6 DEF DebugNext, Reader, Main

LEMMA HistoryStarts == DebugInit => HInv
<1>1. ASSUME DebugInit PROVE HInv
    <2>1. mach = FreshMachine /\ typed = <<>> /\ started = FALSE /\ configured = FALSE /\ cmd.mode = "none"
        BY <1>1 DEF DebugInit, SessionInit, Idle
    <2> QED
        BY <2>1, FreshForm DEF HInv, Faithfully, IsSeq
<1> QED
    BY <1>1

(* The invariant of the history: the moments past keeps are those of one    *)
(* run, each the step of the one before it; the snapshots and the call      *)
(* stacks kept with them are of those moments; and the machine is at one,   *)
(* with its call stack, or has waited there for its device.                 *)
THEOREM HistoryInductive == DebugSpec => []HInv
BY HistoryStarts, HistoryStep, BreakpointsInductive, ServerInductive, PTL DEF DebugSpec

LEMMA RewindStep ==
    ASSUME HInv, ReplayEnds, cmd.next = "stop", faithful, typed = <<>>, mach.on
    PROVE  mach.tick = cmd.tick /\ [m |-> mach, frames |-> callStack] = past[cmd.tick + 1]
<1>1. Recalls /\ cmd.mode = "replay" /\ Replaying /\ ~(mach.tick < cmd.tick)
    BY DEF HInv, Faithfully, ReplayEnds, Replaying
<1>2. mach.tick = cmd.tick /\ AtMoment(past, mach)
    <2>1. mach.tick \in Nat /\ cmd.tick \in Nat
        BY <1>1 DEF Recalls, Formed, Aims, Wanted
    <2> QED
        BY <1>1, <2>1 DEF Recalls, OnTheWay, Wanted
<1>3. PICK p : p = past[mach.tick + 1]
    OBVIOUS
<1>4. mach = p.m /\ callStack = p.frames /\ p = [m |-> p.m, frames |-> p.frames]
    BY <1>1, <1>2, <1>3 DEF Recalls, Stands, AtMoment, Told, Moment
<1> QED
    BY <1>2, <1>3, <1>4

LEMMA ReverseStep ==
    ASSUME HInv, ScanEnds, cmd.next = "breakpoint", faithful, typed = <<>>, mach.on,
           NEW before, before = {t \in OldestTick..cmd.back - 1 : Holds(t) /\ (t = OldestTick => Waits(past[t + 1].m))}
    PROVE  cmd'.tick = IF before = {} THEN cmd.back ELSE CHOOSE t \in before : \A u \in before : u <= t
<1>1. Recalls /\ cmd.mode = "scan" /\ Replaying /\ ~(mach.tick < cmd.back)
    BY DEF HInv, Faithfully, ScanEnds, Replaying
<1>2. OldestTick \in Nat /\ cmd.back \in Nat /\ mach.tick = cmd.back /\ Found
    <2>1. snaps[1].tick \in Nat
        BY <1>1, SnapshotsKnown DEF Recalls
    <2>2. mach.tick \in Nat /\ cmd.back \in Nat
        BY <1>1 DEF Recalls, Formed, Aims, Wanted
    <2>3. mach.tick <= cmd.back /\ Found
        BY <1>1 DEF Recalls, OnTheWay, Wanted
    <2> QED
        BY <1>1, <2>1, <2>2, <2>3 DEF OldestTick
<1>3. before = {t \in OldestTick..cmd.back - 1 : Seen(t)}
    <2>1. ASSUME NEW t \in OldestTick..cmd.back - 1
          PROVE  Seen(t) <=> Holds(t) /\ (t = OldestTick => Waits(past[t + 1].m))
        BY <1>2 DEF Seen
    <2> HIDE DEF Seen
    <2> QED
        BY <2>1
<1>4. IF cmd.found = NoTick THEN before = {} ELSE cmd.found \in before /\ \A t \in before : t <= cmd.found
    BY <1>2, <1>3 DEF Found
<1>5. cmd'.tick = IF cmd.found = NoTick THEN cmd.back ELSE cmd.found
    <2>1. PICK to, found : /\ to = (IF cmd.found = NoTick THEN cmd.back ELSE cmd.found)
                           /\ found = (IF cmd.next = "breakpoint" THEN to ELSE NoTick)
        OBVIOUS
    <2>2. cmd' = [[Going("stop", NoTick) EXCEPT !.found = found] EXCEPT !.mode = "replay", !.tick = to]
        BY <2>1 DEF ScanEnds, ReplayTo
    <2>3. cmd'.tick = to
        BY <2>2 DEF Going
    <2> QED
        BY <2>1, <2>3
<1>6. CASE cmd.found = NoTick
    BY <1>4, <1>5, <1>6
<1>7. CASE cmd.found # NoTick
    <2>1. before \subseteq Int
        BY <1>2, <1>3
    <2>2. ASSUME NEW t \in before, \A u \in before : u <= t PROVE t = cmd.found
        BY <1>4, <1>7, <2>1, <2>2
    <2>3. (CHOOSE t \in before : \A u \in before : u <= t) = cmd.found
        BY <1>4, <1>7, <2>2
    <2> QED
        BY <1>4, <1>5, <1>7, <2>3
<1> QED
    BY <1>6, <1>7

(* Going back an instruction or to a count of them leaves the machine and   *)
(* its call stack as they were the first time that instruction was about to *)
(* run (replayTo, runToTick), from whichever snapshot it was replayed.      *)
THEOREM RewindExact == DebugSpec => RewindIsExact
<1>1. HInv /\ [DebugNext]_debugVars =>
        [ReplayEnds /\ cmd.next = "stop" /\ faithful /\ typed = <<>> /\ mach.on
           => mach.tick = cmd.tick /\ [m |-> mach, frames |-> callStack] = past[cmd.tick + 1]]_debugVars
    BY RewindStep
<1> QED
    BY <1>1, HistoryInductive, PTL DEF DebugSpec, RewindIsExact

(* Continuing backwards stops at the last breakpoint before the moment it   *)
(* was asked at that the history still reaches (reverseContinue).           *)
THEOREM ReverseExact == DebugSpec => ReverseFindsTheLast
<1>1. HInv /\ [DebugNext]_debugVars =>
        [ScanEnds /\ cmd.next = "breakpoint" /\ faithful /\ typed = <<>> /\ mach.on =>
           LET before == {t \in OldestTick..cmd.back - 1 : Holds(t) /\ (t = OldestTick => Waits(past[t + 1].m))}
           IN  cmd'.tick = IF before = {} THEN cmd.back ELSE CHOOSE t \in before : \A u \in before : u <= t]_debugVars
    BY ReverseStep
<1> QED
    BY <1>1, HistoryInductive, PTL DEF DebugSpec, ReverseFindsTheLast

-----------------------------------------------------------------------------
(* The call stack                                                          *)

(* What the debugger takes for granted of a program when it infers the call *)
(* stack.                                                                   *)
Tidy(m) ==
  LET d == Delivered(m)
      op == Listing[d.pc].op
      taken == LetThrough(Serviced(m))
  IN  Waits(m) \/
      /\ taken \/ m.halted => op \notin {"call", "ret", "iret", "drop"}
      /\ taken => op # "fault"
      /\ op = "call" => Listing[d.pc].to # d.pc + 1
      /\ d.depth > 0 /\ op \in {"ret", "drop"} => Len(d.stack) > 1
      /\ op = "iret" /\ d.depth = 1 => Len(d.stack) = 1
      /\ op = "iret" /\ d.depth > 1 => Len(d.stack) > 1
ProgramIsTidy == started /\ faithful /\ mach.on => Tidy(mach)

-----------------------------------------------------------------------------
(* The call stack                                                          *)

(* The stacks of a machine: the system's is in use while an interrupt is    *)
(* handled, and under it lies the program's.                                *)
Stacked(m) ==
    /\ IsSeq(m.stack) /\ IsSeq(m.under) /\ m.depth \in Nat
    /\ m.depth = 0 => m.onSystem = FALSE /\ m.under = <<>>
    /\ m.depth > 0 => m.onSystem = TRUE /\ Len(m.stack) > 0 /\ m.saved = Len(m.under)

(* Where the stack pointer was once the k-th return address was pushed.     *)
SpAt(m, k) ==
    IF k <= Len(m.under) THEN Room - k ELSE (IF m.onSystem THEN 2 * Room + 2 ELSE Room) - (k - Len(m.under))

(* The frames are those of the return addresses on the stacks.              *)
Follows(m, frames) ==
    /\ Formed(m) /\ Stacked(m) /\ IsSeq(frames) /\ Len(frames) = Len(Returns(m)) + 1
    /\ \A k \in 1..Len(Returns(m)) : frames[k + 1].ret = Returns(m)[k] /\ frames[k + 1].sp = SpAt(m, k)

(* What a step may do to the stacks.                                        *)
SameStacks(m, n) ==
    /\ n.stack = m.stack /\ n.under = m.under /\ n.depth = m.depth /\ n.onSystem = m.onSystem /\ n.saved = m.saved
Opened(m, n, ret) ==
    /\ Len(Returns(n)) = Len(Returns(m)) + 1 /\ Returns(n)[Len(Returns(n))] = ret
    /\ \A k \in 1..Len(Returns(m)) : Returns(n)[k] = Returns(m)[k] /\ SpAt(n, k) = SpAt(m, k)
Closed(m, n) ==
    /\ Len(Returns(n)) = IF Len(Returns(m)) = 0 THEN 0 ELSE Len(Returns(m)) - 1
    /\ \A k \in 1..Len(Returns(n)) : Returns(n)[k] = Returns(m)[k] /\ SpAt(n, k) = SpAt(m, k)

LEMMA NoSeq == IsSeq(<<>>) /\ Len(<<>>) = 0
<1>1. <<>> \in Seq({})
    OBVIOUS
<1> QED
    BY <1>1 DEF IsSeq

LEMMA OneSeq ==
    ASSUME NEW x
    PROVE  IsSeq(<<x>>) /\ Len(<<x>>) = 1 /\ <<x>>[1] = x
<1>1. <<x>> \in Seq({x})
    OBVIOUS
<1> QED
    BY <1>1 DEF IsSeq

LEMMA Joined ==
    ASSUME NEW a, NEW b, IsSeq(a), IsSeq(b)
    PROVE  /\ IsSeq(a \o b) /\ Len(a) \in Nat /\ Len(b) \in Nat /\ Len(a \o b) = Len(a) + Len(b)
           /\ \A i \in 1..Len(a) : (a \o b)[i] = a[i]
           /\ \A i \in 1..Len(b) : (a \o b)[Len(a) + i] = b[i]
<1>1. PICK A, B : a \in Seq(A) /\ b \in Seq(B)
    BY DEF IsSeq
<1>2. a \in Seq(A \cup B) /\ b \in Seq(A \cup B)
    BY <1>1
<1> QED
    BY <1>2 DEF IsSeq

LEMMA Fronted ==
    ASSUME NEW q, IsSeq(q)
    PROVE  /\ IsSeq(Front(q)) /\ Len(q) \in Nat
           /\ Len(Front(q)) = IF Len(q) = 0 THEN 0 ELSE Len(q) - 1
           /\ \A i \in 1..Len(Front(q)) : Front(q)[i] = q[i]
<1>1. PICK T : q \in Seq(T)
    BY DEF IsSeq
<1>2. Len(q) \in Nat /\ \A i \in 1..Len(q) - 1 : q[i] \in T
    BY <1>1
<1>3. Front(q) = SubSeq(q, 1, Len(q) - 1)
    BY DEF Front
<1>4. PICK n \in Int : n = Len(q) - 1
    BY <1>2
<1>5. /\ SubSeq(q, 1, n) \in Seq(T) /\ Len(SubSeq(q, 1, n)) = IF 1 <= n THEN n - 1 + 1 ELSE 0
      /\ \A i \in 1 .. n - 1 + 1 : SubSeq(q, 1, n)[i] = q[1 + i - 1]
    BY <1>2, <1>4, SubSeqProperties
<1>6. IsSeq(Front(q))
    BY <1>3, <1>4, <1>5 DEF IsSeq
<1>7. Len(Front(q)) = IF Len(q) = 0 THEN 0 ELSE Len(q) - 1
  <2>1. Len(Front(q)) = IF 1 <= n THEN n - 1 + 1 ELSE 0
    BY <1>3, <1>4, <1>5
  <2> QED
    BY <2>1, <1>2, <1>4
<1>8. ASSUME NEW i \in 1..Len(Front(q))
      PROVE  Front(q)[i] = q[i]
  <2>1. i \in Int /\ 1 <= i /\ i <= n
    BY <1>2, <1>4, <1>7
  <2>2. i \in 1 .. n - 1 + 1 /\ 1 + i - 1 = i
    BY <2>1, <1>4
  <2>3. SubSeq(q, 1, n)[i] = q[1 + i - 1]
    BY <2>2, <1>5
  <2> QED
    BY <2>2, <2>3, <1>3, <1>4
<1> QED
    BY <1>2, <1>6, <1>7, <1>8

LEMMA StacksJoin ==
    ASSUME NEW m, Stacked(m)
    PROVE  /\ IsSeq(Returns(m)) /\ Len(m.under) \in Nat /\ Len(m.stack) \in Nat
           /\ Len(Returns(m)) = Len(m.under) + Len(m.stack)
           /\ \A i \in 1..Len(m.under) : Returns(m)[i] = m.under[i]
           /\ \A i \in 1..Len(m.stack) : Returns(m)[Len(m.under) + i] = m.stack[i]
<1>1. PICK a, b : a = m.under /\ b = m.stack
    OBVIOUS
<1>2. IsSeq(a) /\ IsSeq(b) /\ Returns(m) = a \o b
    BY <1>1 DEF Stacked, Returns
<1>3. /\ IsSeq(a \o b) /\ Len(a) \in Nat /\ Len(b) \in Nat /\ Len(a \o b) = Len(a) + Len(b)
      /\ \A i \in 1..Len(a) : (a \o b)[i] = a[i]
      /\ \A i \in 1..Len(b) : (a \o b)[Len(a) + i] = b[i]
    BY <1>2, Joined
<1> QED
    BY <1>1, <1>2, <1>3

(* The top of the stacks is where the stack pointer is.                     *)
LEMMA StacksTop ==
    ASSUME NEW m, Stacked(m)
    PROVE  /\ Len(m.under) \in Nat /\ Len(m.stack) \in Nat /\ Len(Returns(m)) \in Nat
           /\ Sp(m) \in Int /\ \A k \in 1..Len(Returns(m)) : SpAt(m, k) \in Int
           /\ Len(Returns(m)) = 0 \/ (Len(m.stack) > 0 /\ Len(Returns(m)) \in 1..Len(Returns(m)))
           /\ Len(Returns(m)) = 0 \/ SpAt(m, Len(Returns(m))) = Sp(m)
<1>1. PICK u, l, r : u = Len(m.under) /\ l = Len(m.stack) /\ r = Len(Returns(m))
    OBVIOUS
<1>2. u \in Nat /\ l \in Nat /\ r = u + l
    BY <1>1, StacksJoin
<1>3. PICK top : top = (IF m.onSystem THEN 2 * Room + 2 ELSE Room)
    OBVIOUS
<1>4. Room \in Nat /\ top \in Nat
    BY <1>3, SessionAssumption
<1>5. Sp(m) = top - l
    BY <1>1, <1>3 DEF Sp
<1>6. \A k : SpAt(m, k) = IF k <= u THEN Room - k ELSE top - (k - u)
    BY <1>1, <1>3 DEF SpAt
<1>7. u = 0 \/ l > 0
    <2>1. m.depth = 0 => u = 0
        BY <1>1, NoSeq DEF Stacked
    <2>2. m.depth # 0 => l > 0
        BY <1>1 DEF Stacked
    <2> QED
        BY <2>1, <2>2
<1>8. r \in Nat /\ (r = 0 \/ (l > 0 /\ r \in 1..r))
    BY <1>2, <1>7
<1>9. \A k \in 1..r : SpAt(m, k) \in Int
    BY <1>2, <1>4, <1>6
<1>10. r = 0 \/ SpAt(m, r) = Sp(m)
    <2>1. r # 0 => ~(r <= u) /\ r - u = l
        BY <1>2, <1>7
    <2> QED
        BY <1>5, <1>6, <2>1
<1>11. Sp(m) \in Int
    BY <1>2, <1>4, <1>5
<1> QED
    BY <1>1, <1>2, <1>8, <1>9, <1>10, <1>11

LEMMA SameReturns ==
    ASSUME NEW m, NEW n, Stacked(m), SameStacks(m, n)
    PROVE  Stacked(n) /\ Returns(n) = Returns(m) /\ Sp(n) = Sp(m) /\ \A k : SpAt(n, k) = SpAt(m, k)
BY DEF Stacked, SameStacks, Returns, Sp, SpAt

LEMMA FollowsSame ==
    ASSUME NEW m, NEW F, Follows(m, F), NEW n, Formed(n), SameStacks(m, n)
    PROVE  Follows(n, F)
BY SameReturns DEF Follows

LEMMA FollowsOpened ==
    ASSUME NEW m, NEW F, Follows(m, F), NEW n, Formed(n), Stacked(n), NEW ret, Opened(m, n, ret)
    PROVE  Follows(n, Append(F, Frame(ret, n)))
<1>1. PICK f : f = Frame(ret, n)
    OBVIOUS
<1>2. /\ IsSeq(Append(F, f)) /\ Len(F) \in Nat /\ Len(Append(F, f)) = Len(F) + 1
      /\ Append(F, f)[Len(F) + 1] = f /\ \A i \in 1..Len(F) : Append(F, f)[i] = F[i]
    BY Appended DEF Follows
<1>3. /\ Len(Returns(m)) \in Nat /\ Len(F) = Len(Returns(m)) + 1 /\ Len(Returns(n)) = Len(Returns(m)) + 1
      /\ SpAt(n, Len(Returns(n))) = Sp(n)
    <2>1. Len(Returns(m)) \in Nat /\ Len(F) = Len(Returns(m)) + 1 /\ Len(Returns(n)) = Len(Returns(m)) + 1
        BY StacksTop DEF Follows, Opened
    <2>2. Len(Returns(n)) > 0
        BY <2>1
    <2> QED
        BY <2>1, <2>2, StacksTop
<1>4. ASSUME NEW k \in 1..Len(Returns(n))
      PROVE  Append(F, f)[k + 1].ret = Returns(n)[k] /\ Append(F, f)[k + 1].sp = SpAt(n, k)
    <2>1. CASE k = Len(Returns(n))
        <3>1. Append(F, f)[k + 1] = f
            BY <1>2, <1>3, <2>1
        <3>2. f.ret = ret /\ f.sp = Sp(n)
            BY <1>1 DEF Frame
        <3> QED
            BY <1>3, <2>1, <3>1, <3>2 DEF Opened
    <2>2. CASE k # Len(Returns(n))
        <3>1. k \in 1..Len(Returns(m)) /\ k + 1 \in 1..Len(F)
            BY <1>3, <2>2
        <3> QED
            BY <1>2, <3>1 DEF Follows, Opened
    <2> QED
        BY <2>1, <2>2
<1> QED
    BY <1>1, <1>2, <1>3, <1>4 DEF Follows

LEMMA FollowsClosed ==
    ASSUME NEW m, NEW F, Follows(m, F), NEW n, Formed(n), Stacked(n), Closed(m, n)
    PROVE  Follows(n, IF Len(F) > 1 THEN Front(F) ELSE F)
<1>1. /\ IsSeq(Front(F)) /\ Len(F) \in Nat /\ Len(Front(F)) = IF Len(F) = 0 THEN 0 ELSE Len(F) - 1
      /\ \A i \in 1..Len(Front(F)) : Front(F)[i] = F[i]
    BY Fronted DEF Follows
<1>2. /\ Len(Returns(m)) \in Nat /\ Len(F) = Len(Returns(m)) + 1 /\ Len(Returns(n)) \in Nat
    BY StacksTop DEF Follows, Closed
<1>3. CASE Len(F) > 1
    <2>1. Len(Front(F)) = Len(Returns(n)) + 1 /\ Len(Returns(n)) + 1 = Len(Returns(m))
        BY <1>1, <1>2, <1>3 DEF Closed
    <2>2. ASSUME NEW k \in 1..Len(Returns(n))
          PROVE  Front(F)[k + 1].ret = Returns(n)[k] /\ Front(F)[k + 1].sp = SpAt(n, k)
        <3>1. k \in 1..Len(Returns(m)) /\ k + 1 \in 1..Len(Front(F))
            BY <1>2, <2>1
        <3> QED
            BY <1>1, <3>1 DEF Follows, Closed
    <2> QED
        BY <1>1, <1>3, <2>1, <2>2 DEF Follows
<1>4. CASE ~(Len(F) > 1)
    <2>1. Len(Returns(m)) = 0 /\ Len(Returns(n)) = 0
        BY <1>2, <1>4 DEF Closed
    <2> QED
        BY <1>2, <1>4, <2>1 DEF Follows
<1> QED
    BY <1>3, <1>4

(* A stack pointer that did not move leaves every frame; one that moved up  *)
(* by a word takes the last.                                                *)
LEMMA UnwoundNone ==
    ASSUME NEW m, NEW F, Follows(m, F), NEW n, SameStacks(m, n)
    PROVE  Unwound(F, Sp(n)) = F
<1> DEFINE left == {i \in 2..Len(F) : \A j \in i..Len(F) : F[j].sp < Sp(n)}
<1>1. Len(Returns(m)) \in Nat /\ Len(F) = Len(Returns(m)) + 1 /\ Sp(n) = Sp(m) /\ Sp(m) \in Int
    <2>1. Stacked(m) /\ Len(F) = Len(Returns(m)) + 1
        BY DEF Follows
    <2> QED
        BY <2>1, StacksTop, SameReturns
<1>2. ASSUME NEW i \in left PROVE FALSE
    <2>1. Len(F) \in i..Len(F) /\ Len(F) > 1 /\ Len(Returns(m)) \in 1..Len(Returns(m))
        BY <1>1
    <2>2. F[Len(F)].sp = Sp(m)
        <3>1. SpAt(m, Len(Returns(m))) = Sp(m)
            BY <1>1, <2>1, StacksTop DEF Follows
        <3> QED
            BY <1>1, <2>1, <3>1 DEF Follows
    <2> QED
        BY <1>1, <2>1, <2>2
<1>3. left = {}
    BY <1>2
<1> QED
    BY <1>3 DEF Unwound

LEMMA UnwoundOne ==
    ASSUME NEW m, NEW F, Follows(m, F), NEW n, Stacked(n), Closed(m, n), n.onSystem = m.onSystem,
           Len(n.stack) = IF Len(m.stack) = 0 THEN 0 ELSE Len(m.stack) - 1
    PROVE  Unwound(F, Sp(n)) = IF Len(F) > 1 THEN Front(F) ELSE F
<1> DEFINE left == {i \in 2..Len(F) : \A j \in i..Len(F) : F[j].sp < Sp(n)}
<1>1. /\ Len(Returns(m)) \in Nat /\ Len(F) = Len(Returns(m)) + 1 /\ Sp(n) \in Int /\ Sp(m) \in Int
      /\ Len(m.stack) \in Nat /\ Room \in Nat
    <2>1. Stacked(m) /\ Len(F) = Len(Returns(m)) + 1
        BY DEF Follows
    <2> QED
        BY <2>1, StacksTop, SessionAssumption
<1>2. CASE ~(Len(F) > 1)
    <2>1. left = {}
        BY <1>1, <1>2
    <2> QED
        BY <1>2, <2>1 DEF Unwound
<1>3. CASE Len(F) > 1
    <2>1. Sp(n) = Sp(m) + 1
        <3>1. Len(m.stack) > 0
            BY <1>1, <1>3, StacksTop DEF Follows
        <3>2. Len(n.stack) = Len(m.stack) - 1
            BY <1>1, <3>1
        <3>3. PICK top \in Int : top = IF m.onSystem THEN 2 * Room + 2 ELSE Room
            BY <1>1
        <3>4. Sp(m) = top - Len(m.stack) /\ Sp(n) = top - Len(n.stack)
            BY <3>3 DEF Sp
        <3> QED
            BY <1>1, <3>2, <3>3, <3>4
    <2>2. F[Len(F)].sp = Sp(m)
        <3>1. Len(Returns(m)) \in 1..Len(Returns(m)) /\ SpAt(m, Len(Returns(m))) = Sp(m)
            BY <1>1, <1>3, StacksTop DEF Follows
        <3> QED
            BY <1>1, <3>1 DEF Follows
    <2>3. Len(F) \in left
        BY <1>1, <1>3, <2>1, <2>2
    <2>4. ASSUME NEW i \in left, i # Len(F) PROVE FALSE
        <3>1. Len(F) - 1 \in i..Len(F) /\ Len(F) > 2 /\ Len(Returns(n)) = Len(Returns(m)) - 1
            BY <1>1, <2>4 DEF Closed
        <3>2. /\ Len(Returns(n)) \in 1..Len(Returns(m)) /\ Len(Returns(n)) \in 1..Len(Returns(n))
              /\ Len(Returns(n)) + 1 = Len(F) - 1
            BY <1>1, <3>1
        <3>3. F[Len(F) - 1].sp = Sp(n)
            <4>1. SpAt(n, Len(Returns(n))) = Sp(n)
                BY <3>2, StacksTop
            <4>2. F[Len(F) - 1].sp = SpAt(m, Len(Returns(n)))
                BY <3>2 DEF Follows
            <4> QED
                BY <3>2, <4>1, <4>2 DEF Closed
        <3> QED
            BY <1>1, <3>1, <3>3
    <2>5. left = {Len(F)}
        BY <2>3, <2>4
    <2>6. (CHOOSE i \in left : \A j \in left : i <= j) = Len(F)
        BY <1>1, <2>5
    <2>7. Unwound(F, Sp(n)) = IF left = {} THEN F ELSE SubSeq(F, 1, (CHOOSE i \in left : \A j \in left : i <= j) - 1)
        BY DEF Unwound
    <2> HIDE DEF left
    <2> QED
        BY <1>3, <2>5, <2>6, <2>7 DEF Front
<1> QED
    BY <1>2, <1>3

(* A return address pushed and one popped, on the stack in use.             *)
Below(m, n) == n.under = m.under /\ n.depth = m.depth /\ n.onSystem = m.onSystem /\ n.saved = m.saved

LEMMA Pushed ==
    ASSUME NEW m, Stacked(m), NEW n, Below(m, n), NEW ret, n.stack = Append(m.stack, ret)
    PROVE  Stacked(n) /\ Opened(m, n, ret)
<1>0. PICK u, l, a, b, p, q : /\ a = m.stack /\ b = n.stack /\ p = Returns(m) /\ q = Returns(n)
                              /\ u = Len(m.under) /\ l = Len(a)
    OBVIOUS
<1>1. IsSeq(b) /\ l \in Nat /\ Len(b) = l + 1 /\ b[l + 1] = ret /\ \A i \in 1..l : b[i] = a[i]
    BY <1>0, Appended DEF Stacked
<1>2. Stacked(n)
    <2>1. Len(b) > 0
        BY <1>1
    <2> QED
        BY <1>0, <1>1, <2>1 DEF Stacked, Below
<1>3. /\ u \in Nat /\ Len(p) = u + l
      /\ \A i \in 1..u : p[i] = m.under[i]
      /\ \A i \in 1..l : p[u + i] = a[i]
    BY <1>0, StacksJoin
<1>4. /\ Len(q) = u + (l + 1)
      /\ \A i \in 1..u : q[i] = m.under[i]
      /\ \A i \in 1..l + 1 : q[u + i] = b[i]
    <2>1. n.under = m.under /\ Len(n.under) = u /\ Len(n.stack) = l + 1
        BY <1>0, <1>1 DEF Below
    <2>2. /\ Len(q) = Len(n.under) + Len(n.stack)
          /\ \A i \in 1..Len(n.under) : q[i] = n.under[i]
          /\ \A i \in 1..Len(n.stack) : q[Len(n.under) + i] = n.stack[i]
        BY <1>0, <1>2, StacksJoin
    <2>3. b = n.stack
        BY <1>0
    <2> QED
        BY <2>1, <2>2, <2>3
<1>5. Len(q) = Len(p) + 1 /\ q[u + (l + 1)] = ret
    <2>1. l + 1 \in 1..l + 1 /\ u + (l + 1) = (u + l) + 1
        BY <1>1, <1>3
    <2> QED
        BY <1>1, <1>3, <1>4, <2>1
<1>6. ASSUME NEW k \in 1..u + l PROVE q[k] = p[k]
    <2>1. CASE k \in 1..u
        BY <1>3, <1>4, <2>1
    <2>2. CASE k \notin 1..u
        <3>1. PICK i : i = k - u
            OBVIOUS
        <3>2. i \in 1..l /\ i \in 1..l + 1 /\ k = u + i
            BY <1>1, <1>3, <2>2, <3>1
        <3> QED
            BY <1>1, <1>3, <1>4, <3>2
    <2> QED
        BY <2>1, <2>2
<1>7. \A k : SpAt(n, k) = SpAt(m, k)
    BY DEF SpAt, Below
<1> QED
    BY <1>0, <1>2, <1>3, <1>4, <1>5, <1>6, <1>7 DEF Opened

LEMMA Popped ==
    ASSUME NEW m, Stacked(m), NEW n, Below(m, n), n.stack = Front(m.stack), m.depth > 0 => Len(m.stack) > 1
    PROVE  /\ Stacked(n) /\ Closed(m, n) /\ n.onSystem = m.onSystem
           /\ Len(n.stack) = IF Len(m.stack) = 0 THEN 0 ELSE Len(m.stack) - 1
<1>0. PICK u, l, a, b, p, q : /\ a = m.stack /\ b = n.stack /\ p = Returns(m) /\ q = Returns(n)
                              /\ u = Len(m.under) /\ l = Len(a)
    OBVIOUS
<1>1. PICK v : v = Len(b)
    OBVIOUS
<1>2. IsSeq(b) /\ l \in Nat /\ v = (IF l = 0 THEN 0 ELSE l - 1) /\ \A i \in 1..v : b[i] = a[i]
    BY <1>0, <1>1, Fronted DEF Stacked
<1>3. Stacked(n)
    <2>1. l > 1 => v > 0
        BY <1>2
    <2> QED
        BY <1>0, <1>1, <1>2, <2>1 DEF Stacked, Below
<1>4. /\ u \in Nat /\ Len(p) = u + l
      /\ \A i \in 1..u : p[i] = m.under[i]
      /\ \A i \in 1..l : p[u + i] = a[i]
    BY <1>0, StacksJoin
<1>5. /\ Len(q) = u + v
      /\ \A i \in 1..u : q[i] = m.under[i]
      /\ \A i \in 1..v : q[u + i] = b[i]
    <2>1. n.under = m.under /\ Len(n.under) = u /\ Len(n.stack) = v
        BY <1>0, <1>1 DEF Below
    <2>2. /\ Len(q) = Len(n.under) + Len(n.stack)
          /\ \A i \in 1..Len(n.under) : q[i] = n.under[i]
          /\ \A i \in 1..Len(n.stack) : q[Len(n.under) + i] = n.stack[i]
        BY <1>0, <1>3, StacksJoin
    <2>3. b = n.stack
        BY <1>0
    <2> QED
        BY <2>1, <2>2, <2>3
<1>6. u + v = IF u + l = 0 THEN 0 ELSE u + l - 1
    <2>1. u = 0 \/ l > 0
        <3>1. Len(p) = 0 \/ l > 0
            BY <1>0, StacksTop
        <3> QED
            BY <1>2, <1>4, <3>1
    <2> QED
        BY <1>2, <1>4, <2>1
<1>7. ASSUME NEW k \in 1..u + v PROVE q[k] = p[k]
    <2>1. CASE k \in 1..u
        BY <1>4, <1>5, <2>1
    <2>2. CASE k \notin 1..u
        <3>1. PICK i : i = k - u
            OBVIOUS
        <3>2. i \in 1..l /\ i \in 1..v /\ k = u + i
            BY <1>2, <1>4, <2>2, <3>1
        <3> QED
            BY <1>2, <1>4, <1>5, <3>2
    <2> QED
        BY <2>1, <2>2
<1>8. \A k : SpAt(n, k) = SpAt(m, k)
    BY DEF SpAt, Below
<1>9. Closed(m, n)
    <2>1. p = Returns(m) /\ q = Returns(n)
        BY <1>0
    <2>2. Len(q) = IF Len(p) = 0 THEN 0 ELSE Len(p) - 1
        <3>1. PICK x, y : x = Len(p) /\ y = Len(q)
            OBVIOUS
        <3>2. x = u + l /\ y = u + v
            BY <1>4, <1>5, <3>1
        <3>3. y = IF x = 0 THEN 0 ELSE x - 1
            <4>1. u \in Nat /\ l \in Nat /\ v \in Nat
                BY <1>2, <1>4
            <4> QED
                BY <1>6, <3>2, <4>1
        <3> QED
            BY <3>1, <3>3
    <2>3. \A k \in 1..Len(q) : q[k] = p[k]
        BY <1>5, <1>7
    <2> QED
        BY <1>8, <2>1, <2>2, <2>3 DEF Closed
<1> QED
    BY <1>0, <1>1, <1>2, <1>3, <1>9 DEF Below

(* An interrupt opens a frame, over the program's or over another's.        *)
LEMMA EnterStacks ==
    ASSUME NEW m, Formed(m), Stacked(m), NEW h, NEW e, e = Enter(m, h)
    PROVE  Formed(e) /\ Stacked(e) /\ Opened(m, e, m.pc) /\ e.halted = FALSE
<1>1. PICK depth, saved, under, sys, stack :
        /\ depth = m.depth + 1 /\ saved = (IF m.depth = 0 THEN Len(m.stack) ELSE m.saved)
        /\ under = (IF m.depth = 0 THEN m.stack ELSE m.under) /\ sys = (m.onSystem \/ m.depth = 0)
        /\ stack = (IF m.depth = 0 THEN <<m.pc>> ELSE Append(m.stack, m.pc))
    OBVIOUS
<1>2. e = [m EXCEPT !.enabled = FALSE, !.halted = FALSE, !.pc = h, !.depth = depth, !.saved = saved,
                    !.under = under, !.onSystem = sys, !.stack = stack]
    BY <1>1 DEF Enter
<1>3. /\ e.halted = FALSE /\ e.depth = depth /\ e.saved = saved /\ e.under = under /\ e.onSystem = sys /\ e.stack = stack
    BY <1>2 DEF Formed, MachFields
<1>4. Formed(e)
    BY EnterForm
<1>5. m.depth \in Nat /\ IsSeq(m.stack) /\ IsSeq(m.under)
    BY DEF Stacked
<1>6. CASE m.depth = 0
    <2>1. m.under = <<>> /\ m.onSystem = FALSE
        BY <1>6 DEF Stacked
    <2>2. depth = 1 /\ saved = Len(m.stack) /\ under = m.stack /\ sys = TRUE /\ stack = <<m.pc>>
        <3>1. depth = 1 /\ saved = Len(m.stack) /\ under = m.stack /\ stack = <<m.pc>>
            BY <1>1, <1>6
        <3>2. sys = TRUE
            BY <1>1, <1>6, Zenon
        <3> QED
            BY <3>1, <3>2
    <2>3. IsSeq(stack) /\ Len(stack) = 1 /\ stack[1] = m.pc
        BY <2>2, OneSeq
    <2>4. Stacked(e)
        BY <1>3, <1>5, <2>2, <2>3 DEF Stacked
    <2>5. PICK l, p, q, a : l = Len(m.stack) /\ p = Returns(m) /\ q = Returns(e) /\ a = m.stack
        OBVIOUS
    <2>6. l \in Nat /\ Len(q) = l + 1 /\ q[l + 1] = m.pc /\ \A i \in 1..l : q[i] = a[i]
        <3>1. /\ Len(e.under) \in Nat /\ Len(q) = Len(e.under) + Len(e.stack)
              /\ \A i \in 1..Len(e.under) : q[i] = e.under[i]
              /\ \A i \in 1..Len(e.stack) : q[Len(e.under) + i] = e.stack[i]
            BY <2>4, <2>5, StacksJoin
        <3>2. e.under = a /\ Len(e.under) = l /\ Len(e.stack) = 1 /\ e.stack[1] = m.pc
            BY <1>3, <2>2, <2>3, <2>5
        <3> QED
            BY <3>1, <3>2
    <2>7. Len(p) = l /\ \A i \in 1..l : p[i] = a[i]
        <3>1. /\ Len(p) = Len(m.under) + Len(m.stack)
              /\ \A i \in 1..Len(m.stack) : p[Len(m.under) + i] = m.stack[i]
            BY <2>5, StacksJoin
        <3>2. Len(m.under) = 0 /\ Len(m.stack) = l /\ m.stack = a
            BY <2>1, <2>5, NoSeq
        <3> QED
            BY <2>6, <3>1, <3>2
    <2>8. ASSUME NEW k \in 1..l PROVE SpAt(e, k) = SpAt(m, k)
        <3>1. Len(e.under) = l /\ Len(m.under) = 0
            BY <1>3, <2>1, <2>2, <2>5, NoSeq
        <3>2. SpAt(e, k) = Room - k
            BY <2>6, <3>1 DEF SpAt
        <3>3. SpAt(m, k) = Room - (k - 0)
            BY <2>1, <2>6, <3>1 DEF SpAt
        <3> QED
            BY <2>6, <3>2, <3>3, SessionAssumption
    <2>9. Opened(m, e, m.pc)
        BY <2>5, <2>6, <2>7, <2>8 DEF Opened
    <2> QED
        BY <1>3, <1>4, <2>4, <2>9
<1>7. CASE m.depth # 0
    <2>1. m.onSystem = TRUE /\ m.saved = Len(m.under)
        BY <1>5, <1>7 DEF Stacked
    <2>2. depth = m.depth + 1 /\ saved = m.saved /\ under = m.under /\ sys = TRUE /\ stack = Append(m.stack, m.pc)
        BY <1>1, <1>7, <2>1
    <2>3. IsSeq(stack) /\ Len(stack) > 0
        <3>1. IsSeq(stack) /\ Len(m.stack) \in Nat /\ Len(stack) = Len(m.stack) + 1
            BY <1>5, <2>2, Appended
        <3> QED
            BY <3>1
    <2>4. Stacked(e)
        <3>1. depth \in Nat /\ depth # 0
            BY <1>5, <2>2
        <3> QED
            BY <1>3, <1>5, <2>1, <2>2, <2>3, <3>1 DEF Stacked
    <2>5. PICK n : n = [m EXCEPT !.stack = stack]
        OBVIOUS
    <2>6. Below(m, n) /\ n.stack = Append(m.stack, m.pc)
        BY <2>2, <2>5 DEF Below, Formed, MachFields
    <2>7. Opened(m, n, m.pc)
        BY <2>6, Pushed
    <2>8. e.under = n.under /\ e.stack = n.stack /\ e.onSystem = n.onSystem
        BY <1>3, <2>1, <2>2, <2>6 DEF Below
    <2>9. Returns(e) = Returns(n) /\ \A k : SpAt(e, k) = SpAt(n, k)
        BY <2>8 DEF Returns, SpAt
    <2>10. Opened(m, e, m.pc)
        BY <2>7, <2>9 DEF Opened
    <2> QED
        BY <1>3, <1>4, <2>4, <2>10
<1> QED
    BY <1>6, <1>7

(* IRET closes one.                                                         *)
LEMMA LeaveStacks ==
    ASSUME NEW m, Formed(m), Stacked(m), m.depth = 1 => Len(m.stack) = 1, m.depth > 1 => Len(m.stack) > 1,
           NEW x, x = Leave(m)
    PROVE  Stacked(x) /\ Closed(m, x)
<1>0. m.depth \in Nat /\ IsSeq(m.stack) /\ IsSeq(m.under) /\ Len(m.under) \in Nat
    BY StacksJoin DEF Stacked
<1>1. PICK top, front, en : top = Top(m.stack) /\ front = Front(m.stack) /\ en = (m.depth <= 1)
    OBVIOUS
<1>2. PICK back : back = [m EXCEPT !.pc = top, !.stack = front, !.enabled = en]
    OBVIOUS
<1>3. Below(m, back) /\ back.stack = front /\ back = [z \in MachFields |-> back[z]]
    BY <1>2 DEF Below, Formed, MachFields
<1>4. CASE m.depth = 0
    <2>1. x = back
        BY <1>1, <1>2, <1>4 DEF Leave
    <2> QED
        BY <1>1, <1>3, <1>4, <2>1, Popped
<1>5. CASE m.depth > 1
    <2>1. x = [back EXCEPT !.depth = m.depth - 1]
        BY <1>1, <1>2, <1>5 DEF Leave
    <2>2. /\ x.under = m.under /\ x.depth = m.depth - 1 /\ x.onSystem = m.onSystem /\ x.saved = m.saved /\ x.stack = front
        BY <1>3, <2>1 DEF Below, MachFields
    <2>3. Stacked(back) /\ Closed(m, back) /\ Len(front) > 0
        BY <1>0, <1>1, <1>3, <1>5, Popped, StacksJoin
    <2>4. Returns(x) = Returns(back) /\ \A k : SpAt(x, k) = SpAt(back, k)
        BY <1>3, <2>2 DEF Returns, SpAt, Below
    <2>5. Stacked(x)
        BY <1>0, <1>3, <1>5, <2>2, <2>3 DEF Stacked
    <2> QED
        BY <2>3, <2>4, <2>5 DEF Closed
<1>6. CASE m.depth = 1
    <2>1. PICK st : st = [i \in 1..m.saved |-> IF i \in DOMAIN m.under THEN m.under[i] ELSE 1]
        OBVIOUS
    <2>2. x = [back EXCEPT !.depth = 0, !.onSystem = FALSE, !.under = <<>>, !.saved = 0, !.stack = st]
        BY <1>1, <1>2, <1>6, <2>1 DEF Leave
    <2>3. x.under = <<>> /\ x.depth = 0 /\ x.onSystem = FALSE /\ x.stack = st
        BY <1>3, <2>2 DEF MachFields
    <2>4. m.saved = Len(m.under) /\ m.onSystem = TRUE
        BY <1>6 DEF Stacked
    <2>5. st = m.under
        <3>1. PICK T : m.under \in Seq(T)
            BY <1>0 DEF IsSeq
        <3>2. m.under = [i \in 1..Len(m.under) |-> m.under[i]] /\ DOMAIN m.under = 1..Len(m.under)
            BY <3>1
        <3> QED
            BY <2>1, <2>4, <3>2
    <2>6. Stacked(x)
        BY <1>0, <2>3, <2>5, NoSeq DEF Stacked
    <2>7. /\ Len(Returns(x)) = Len(m.under) /\ \A i \in 1..Len(m.under) : Returns(x)[i] = m.under[i]
        <3>1. /\ Len(Returns(x)) = Len(x.under) + Len(x.stack)
              /\ \A i \in 1..Len(x.stack) : Returns(x)[Len(x.under) + i] = x.stack[i]
            BY <2>6, StacksJoin
        <3>2. Len(x.under) = 0 /\ x.stack = m.under
            BY <2>3, <2>5, NoSeq
        <3> QED
            BY <1>0, <3>1, <3>2
    <2>8. /\ Len(Returns(m)) = Len(m.under) + 1 /\ \A i \in 1..Len(m.under) : Returns(m)[i] = m.under[i]
        BY <1>6, StacksJoin
    <2>9. ASSUME NEW k \in 1..Len(m.under) PROVE SpAt(x, k) = SpAt(m, k)
        <3>1. SpAt(m, k) = Room - k
            BY <1>0 DEF SpAt
        <3>2. SpAt(x, k) = Room - k
            BY <1>0, <2>3, NoSeq, SessionAssumption DEF SpAt
        <3> QED
            BY <3>1, <3>2
    <2> QED
        BY <1>0, <2>6, <2>7, <2>8, <2>9 DEF Closed
<1> QED
    BY <1>0, <1>4, <1>5, <1>6

(* What an instruction does to the stacks.                                  *)
LEMMA ExecuteStacks ==
    ASSUME NEW m, Formed(m), NEW y, y = Retired(ExecuteAt(m)), NEW op, op = Listing[m.pc].op
    PROVE  /\ op = "call" => \/ y.pc = Listing[m.pc].to /\ Below(m, y) /\ y.stack = Append(m.stack, m.pc + 1)
                             \/ y.pc = m.pc + 1 /\ SameStacks(m, y)
           /\ op \in {"ret", "drop"} => Below(m, y) /\ y.stack = Front(m.stack)
           /\ op = "iret" => SameStacks(Leave(m), y)
           /\ op = "fault" => SameStacks(Enter(m, FaultHandler), y)
           /\ op \notin {"call", "ret", "drop", "iret", "fault"} => SameStacks(m, y)
<1>1. PICK x : x = ExecuteAt(m)
    OBVIOUS
<1>2. Formed(x)
    BY <1>1, ExecuteForm
<1>3. y.pc = x.pc /\ SameStacks(x, y)
    <2>1. PICK t, c : y = [x EXCEPT !.tick = t, !.clock = c]
        BY <1>1 DEF Retired
    <2> QED
        BY <1>2, <2>1 DEF SameStacks, Formed, MachFields
<1>4. PICK on : on = [m EXCEPT !.pc = m.pc + 1]
    OBVIOUS
<1>5. on = [z \in MachFields |-> on[z]] /\ on.pc = m.pc + 1 /\ SameStacks(m, on)
    BY <1>4 DEF SameStacks, Formed, MachFields
<1>6. \A v, w : LET r == [m EXCEPT !.pc = v, !.stack = w] IN r.pc = v /\ r.stack = w /\ Below(m, r)
    BY DEF Below, Formed, MachFields
<1>7. \A v, w : /\ SameStacks(m, [on EXCEPT !.raised = v]) /\ SameStacks(m, [on EXCEPT !.halted = v])
                /\ SameStacks(m, [on EXCEPT !.got = v]) /\ SameStacks(m, [on EXCEPT !.got = v, !.input = w])
    BY <1>5 DEF SameStacks, MachFields
<1>8. CASE op = "call"
    <2>1. x = [m EXCEPT !.pc = Listing[m.pc].to, !.stack = Append(m.stack, m.pc + 1)] \/ x = on
        BY <1>1, <1>4, <1>8 DEF ExecuteAt
    <2> QED
        <3>1. CASE x = on
            BY <1>3, <1>5, <1>8, <3>1 DEF SameStacks
        <3>2. CASE x = [m EXCEPT !.pc = Listing[m.pc].to, !.stack = Append(m.stack, m.pc + 1)]
            <4>1. x.pc = Listing[m.pc].to /\ x.stack = Append(m.stack, m.pc + 1) /\ Below(m, x)
                BY <1>6, <3>2
            <4> QED
                BY <1>3, <1>8, <4>1 DEF SameStacks, Below
        <3> QED
            BY <2>1, <3>1, <3>2
<1>9. CASE op = "ret"
    <2>1. x = [m EXCEPT !.pc = Top(m.stack), !.stack = Front(m.stack)]
        BY <1>1, <1>9 DEF ExecuteAt
    <2> QED
        BY <1>3, <1>6, <1>9, <2>1 DEF SameStacks, Below
<1>10. CASE op = "drop"
    <2>1. x = [on EXCEPT !.stack = Front(m.stack)]
        BY <1>1, <1>4, <1>10 DEF ExecuteAt
    <2>2. x.stack = Front(m.stack) /\ Below(m, x)
        BY <1>5, <2>1 DEF Below, SameStacks, MachFields
    <2> QED
        BY <1>3, <1>10, <2>2 DEF SameStacks, Below
<1>11. CASE op = "iret"
    BY <1>1, <1>3, <1>11 DEF ExecuteAt
<1>12. CASE op = "fault"
    BY <1>1, <1>3, <1>12 DEF ExecuteAt
<1>13. CASE op \notin {"call", "ret", "drop", "iret", "fault"}
    <2>1. CASE op = "off"
        <3>1. x = [m EXCEPT !.on = FALSE]
            BY <1>1, <2>1 DEF ExecuteAt
        <3>2. SameStacks(m, x)
            BY <3>1 DEF SameStacks, Formed, MachFields
        <3> QED
            BY <1>3, <1>13, <3>2 DEF SameStacks
    <2>2. CASE op # "off"
        <3>1. \/ x = on
              \/ \E v : x \in {[on EXCEPT !.raised = v], [on EXCEPT !.halted = v], [on EXCEPT !.got = v]}
              \/ \E v, w : x = [on EXCEPT !.got = v, !.input = w]
            BY <1>1, <1>4, <1>13, <2>2 DEF ExecuteAt
        <3>2. SameStacks(m, x)
            <4>1. CASE x = on
                BY <1>5, <4>1
            <4>2. CASE \E v : x \in {[on EXCEPT !.raised = v], [on EXCEPT !.halted = v], [on EXCEPT !.got = v]}
                <5>1. PICK v : x \in {[on EXCEPT !.raised = v], [on EXCEPT !.halted = v], [on EXCEPT !.got = v]}
                    BY <4>2
                <5>2. SameStacks(m, [on EXCEPT !.raised = v]) /\ SameStacks(m, [on EXCEPT !.halted = v]) /\ SameStacks(m, [on EXCEPT !.got = v])
                    BY <1>7
                <5> QED
                    BY <5>1, <5>2
            <4>3. CASE \E v, w : x = [on EXCEPT !.got = v, !.input = w]
                <5>1. PICK v, w : x = [on EXCEPT !.got = v, !.input = w]
                    BY <4>3
                <5>2. SameStacks(m, [on EXCEPT !.got = v, !.input = w])
                    BY <1>7
                <5> QED
                    BY <5>1, <5>2
            <4> QED
                BY <3>1, <4>1, <4>2, <4>3
        <3> QED
            BY <1>3, <1>13, <3>2 DEF SameStacks
    <2> QED
        BY <2>1, <2>2
<1> QED
    BY <1>8, <1>9, <1>10, <1>11, <1>12, <1>13

(* A step of a tidy program keeps the frames to the stacks.                 *)
LEMMA StepFollows ==
    ASSUME NEW m, NEW F, Follows(m, F), Tidy(m), NEW s, s = Step(m)
    PROVE  Follows(s.m, UpdateCallStack(F, m, s))
<1>0. Formed(m) /\ Stacked(m)
    BY DEF Follows
<1>1. CASE Waits(m)
    <2>1. s.entered = FALSE /\ m.halted /\ Formed(s.m) /\ SameStacks(m, s.m)
        BY <1>0, <1>1, WaitingOnce DEF SameStacks
    <2>2. UpdateCallStack(F, m, s) = F
        BY <2>1 DEF UpdateCallStack
    <2> QED
        BY <2>1, <2>2, FollowsSame
<1>2. CASE ~Waits(m)
    <2>1. PICK v : v = Serviced(m)
        OBVIOUS
    <2>2. Formed(v) /\ SameStacks(m, v) /\ v.pc = m.pc /\ v.halted = m.halted
        <3>1. \A n : Formed(n) => LET r == Raise(n) IN Formed(r) /\ SameStacks(n, r) /\ r.pc = n.pc /\ r.halted = n.halted
            BY DEF Raise, Formed, MachFields, SameStacks
        <3>2. LET r == [m EXCEPT !.due = 0] IN Formed(r) /\ SameStacks(m, r) /\ r.pc = m.pc /\ r.halted = m.halted
            BY <1>0 DEF Formed, MachFields, SameStacks
        <3>3. PICK r : r = [m EXCEPT !.due = 0]
            OBVIOUS
        <3>4. v = Raise(r) \/ v = m
            BY <2>1, <3>3 DEF Serviced
        <3>5. CASE v = m
            BY <1>0, <3>5 DEF SameStacks
        <3>6. CASE v = Raise(r)
            BY <3>1, <3>2, <3>3, <3>6 DEF SameStacks
        <3> QED
            BY <3>4, <3>5, <3>6
    <2>3. Follows(v, F)
        BY <2>2, FollowsSame
    <2>4. PICK d : d = Delivered(m)
        OBVIOUS
    <2>5. PICK awake : awake = IF d.halted THEN [d EXCEPT !.halted = FALSE, !.raised = FALSE] ELSE d
        OBVIOUS
    <2>6. PICK y : y = Retired(ExecuteAt(awake))
        OBVIOUS
    <2>7. PICK op : op = Listing[d.pc].op
        OBVIOUS
    <2>8. /\ s.m = y /\ s.entered = (LetThrough(v) \/ op = "fault")
          /\ s.at = IF op = "fault" THEN d.pc ELSE v.pc
        BY <1>2, <2>1, <2>4, <2>5, <2>6, <2>7 DEF Step
    <2>9. Formed(y)
        BY <1>0, <1>2, <2>8, Retires
    <2>10. /\ LetThrough(v) \/ m.halted => op \notin {"call", "ret", "iret", "drop"}
           /\ LetThrough(v) => op # "fault"
           /\ op = "call" => Listing[d.pc].to # d.pc + 1
           /\ d.depth > 0 /\ op \in {"ret", "drop"} => Len(d.stack) > 1
           /\ op = "iret" /\ d.depth = 1 => Len(d.stack) = 1
           /\ op = "iret" /\ d.depth > 1 => Len(d.stack) > 1
        BY <1>2, <2>1, <2>4, <2>7 DEF Tidy
    <2>11. ASSUME Formed(d)
           PROVE  /\ Formed(awake) /\ SameStacks(d, awake) /\ awake.pc = d.pc
                  /\ op = "call" => \/ y.pc = Listing[awake.pc].to /\ Below(awake, y) /\ y.stack = Append(awake.stack, awake.pc + 1)
                                    \/ y.pc = awake.pc + 1 /\ SameStacks(awake, y)
                  /\ op \in {"ret", "drop"} => Below(awake, y) /\ y.stack = Front(awake.stack)
                  /\ op = "iret" => SameStacks(Leave(awake), y)
                  /\ op = "fault" => SameStacks(Enter(awake, FaultHandler), y)
                  /\ op \notin {"call", "ret", "drop", "iret", "fault"} => SameStacks(awake, y)
        <3>1. Formed(awake) /\ SameStacks(d, awake) /\ awake.pc = d.pc
            BY <2>5, <2>11 DEF Formed, MachFields, SameStacks
        <3>2. op = Listing[awake.pc].op
            BY <2>7, <3>1
        <3> QED
            BY <2>6, <3>1, <3>2, ExecuteStacks
    <2>12. CASE LetThrough(v)
        <3>1. PICK e : e = Enter(v, Handler)
            OBVIOUS
        <3>2. d = [e EXCEPT !.pending = FALSE, !.raised = FALSE]
            BY <2>1, <2>4, <2>12, <3>1 DEF Delivered
        <3>3. Formed(e) /\ Stacked(e) /\ Opened(v, e, v.pc)
            BY <2>2, <2>3, <3>1, EnterStacks DEF Follows
        <3>4. Formed(d) /\ SameStacks(e, d)
            BY <3>2, <3>3 DEF Formed, MachFields, SameStacks
        <3>5. SameStacks(awake, y) /\ SameStacks(d, awake)
            BY <2>10, <2>11, <2>12, <3>4
        <3>6. SameStacks(e, y)
            BY <3>4, <3>5 DEF SameStacks
        <3>7. Follows(e, Append(F, Frame(v.pc, e)))
            BY <2>3, <3>3, FollowsOpened
        <3>8. Frame(v.pc, e) = Frame(v.pc, y)
            BY <3>3, <3>6, SameReturns DEF Frame
        <3>9. UpdateCallStack(F, m, s) = Append(F, Frame(v.pc, y))
            BY <2>8, <2>10, <2>12 DEF UpdateCallStack
        <3> QED
            BY <2>8, <2>9, <3>6, <3>7, <3>8, <3>9, FollowsSame
    <2>13. CASE ~LetThrough(v)
        <3>1. d = v
            BY <2>1, <2>4, <2>13 DEF Delivered
        <3>2. Formed(d) /\ Follows(d, F) /\ d.pc = m.pc /\ d.halted = m.halted
            BY <2>2, <2>3, <3>1
        <3>3. Formed(awake) /\ SameStacks(d, awake) /\ awake.pc = d.pc
            BY <2>11, <3>2
        <3>4. Follows(awake, F) /\ Stacked(awake)
          <4>1. Follows(awake, F)
            BY <3>2, <3>3, FollowsSame
          <4> QED
            BY <4>1 DEF Follows
        <3>5. /\ awake.depth = d.depth /\ awake.stack = d.stack
            BY <3>3 DEF SameStacks
        <3>6. CASE op = "fault"
            <4>1. PICK e : e = Enter(awake, FaultHandler)
                OBVIOUS
            <4>2. Formed(e) /\ Stacked(e) /\ Opened(awake, e, awake.pc)
                BY <3>3, <3>4, <4>1, EnterStacks
            <4>3. SameStacks(e, y)
                BY <2>11, <3>2, <3>6, <4>1
            <4>4. Follows(e, Append(F, Frame(awake.pc, e)))
                BY <3>4, <4>2, FollowsOpened
            <4>5. Frame(awake.pc, e) = Frame(d.pc, y)
                BY <3>3, <4>2, <4>3, SameReturns DEF Frame
            <4>6. UpdateCallStack(F, m, s) = Append(F, Frame(d.pc, y))
                BY <2>8, <3>6 DEF UpdateCallStack
            <4> QED
                BY <2>8, <2>9, <4>3, <4>4, <4>5, <4>6, FollowsSame
        <3>7. CASE op # "fault" /\ m.halted
            <4>1. UpdateCallStack(F, m, s) = F
                BY <2>8, <2>13, <3>7 DEF UpdateCallStack
            <4>2. SameStacks(awake, y)
                BY <2>10, <2>11, <3>2, <3>7
            <4> QED
                BY <2>8, <2>9, <3>4, <4>1, <4>2, FollowsSame
        <3>8. CASE op # "fault" /\ ~m.halted
            <4>1. UpdateCallStack(F, m, s) =
                    CASE op = "call" -> IF y.pc = d.pc + 1 THEN F ELSE Append(F, Frame(d.pc + 1, y))
                      [] op \in {"ret", "iret"} -> IF Len(F) > 1 THEN Front(F) ELSE F
                      [] OTHER -> Unwound(F, Sp(y))
                BY <2>7, <2>8, <2>13, <3>2, <3>8 DEF UpdateCallStack
            <4>2. CASE op = "call"
                <5>1. CASE y.pc = Listing[awake.pc].to /\ Below(awake, y) /\ y.stack = Append(awake.stack, awake.pc + 1)
                    <6>1. Stacked(y) /\ Opened(awake, y, awake.pc + 1)
                        BY <3>4, <5>1, Pushed
                    <6>2. UpdateCallStack(F, m, s) = Append(F, Frame(awake.pc + 1, y))
                        BY <2>10, <3>3, <4>1, <4>2, <5>1
                    <6> QED
                        BY <2>8, <2>9, <3>4, <6>1, <6>2, FollowsOpened
                <5>2. CASE y.pc = awake.pc + 1 /\ SameStacks(awake, y)
                    <6>1. UpdateCallStack(F, m, s) = F
                        BY <3>3, <4>1, <4>2, <5>2
                    <6> QED
                        BY <2>8, <2>9, <3>4, <5>2, <6>1, FollowsSame
                <5> QED
                    BY <2>11, <3>2, <4>2, <5>1, <5>2
            <4>3. CASE op \in {"ret", "drop"}
                <5>1. Below(awake, y) /\ y.stack = Front(awake.stack) /\ (awake.depth > 0 => Len(awake.stack) > 1)
                    BY <2>10, <2>11, <3>2, <3>5, <4>3
                <5>2. /\ Stacked(y) /\ Closed(awake, y) /\ y.onSystem = awake.onSystem
                      /\ Len(y.stack) = IF Len(awake.stack) = 0 THEN 0 ELSE Len(awake.stack) - 1
                    BY <3>4, <5>1, Popped
                <5>3. UpdateCallStack(F, m, s) = IF Len(F) > 1 THEN Front(F) ELSE F
                    <6>1. CASE op = "ret"
                        BY <4>1, <6>1
                    <6>2. CASE op = "drop"
                        <7>1. UpdateCallStack(F, m, s) = Unwound(F, Sp(y))
                            BY <4>1, <6>2
                        <7> QED
                            BY <3>4, <5>2, <7>1, UnwoundOne
                    <6> QED
                        BY <4>3, <6>1, <6>2
                <5> QED
                    BY <2>8, <2>9, <3>4, <5>2, <5>3, FollowsClosed
            <4>4. CASE op = "iret"
                <5>1. PICK x : x = Leave(awake)
                    OBVIOUS
                <5>2. Stacked(x) /\ Closed(awake, x)
                    BY <2>10, <3>3, <3>4, <3>5, <4>4, <5>1, LeaveStacks
                <5>3. SameStacks(x, y)
                    BY <2>11, <3>2, <4>4, <5>1
                <5>4. Formed(x)
                    BY <3>3, <5>1, LeaveForm
                <5>5. UpdateCallStack(F, m, s) = IF Len(F) > 1 THEN Front(F) ELSE F
                    BY <4>1, <4>4
                <5>6. Follows(x, IF Len(F) > 1 THEN Front(F) ELSE F)
                    BY <3>4, <5>2, <5>4, FollowsClosed
                <5> QED
                    BY <2>8, <2>9, <5>3, <5>5, <5>6, FollowsSame
            <4>5. CASE op \notin {"call", "ret", "drop", "iret"}
                <5>1. SameStacks(awake, y)
                    BY <2>11, <3>2, <3>8, <4>5
                <5>2. UpdateCallStack(F, m, s) = Unwound(F, Sp(y))
                    BY <4>1, <4>5
                <5>3. Unwound(F, Sp(y)) = F
                    BY <3>4, <5>1, UnwoundNone
                <5> QED
                    BY <2>8, <2>9, <3>4, <5>1, <5>2, <5>3, FollowsSame
            <4> QED
                BY <4>2, <4>3, <4>4, <4>5
        <3> QED
            BY <3>6, <3>7, <3>8
    <2> QED
        BY <2>12, <2>13
<1> QED
    BY <1>1, <1>2

(* The call stacks kept with the snapshots follow them.                     *)
SnapsFollow(S, K) ==
    /\ IsSeq(S) /\ IsSeq(K) /\ Len(S) > 0 /\ Len(K) = Len(S)
    /\ \A i \in 1..Len(S) : K[i].tick = S[i].tick /\ Follows(S[i], K[i].frames)
    /\ \A i, j \in 1..Len(S) : i < j => S[i].tick < S[j].tick

(* A command that goes back stays in what the history reaches.              *)
Reaches ==
    Replaying =>
      /\ GoingForm /\ OldestTick <= mach.tick /\ (cmd.mode = "scan" => cmd.next # "stop")
      /\ cmd.next # "stop" => /\ cmd.back \in Nat /\ OldestTick <= cmd.back
                              /\ cmd.found = NoTick \/ (cmd.found \in Nat /\ OldestTick <= cmd.found)

Remembers == Follows(mach, callStack) /\ SnapsFollow(snaps, stacks) /\ Reaches

(* A machine no session has started on.                                     *)
Bare(m) == Formed(m) /\ m.tick = 0 /\ m.stack = <<>> /\ m.under = <<>> /\ m.depth = 0 /\ m.onSystem = FALSE

CInv ==
    /\ configured \/ cmd.mode # "none" => started
    /\ ~started /\ faithful => Bare(mach)
    /\ started /\ faithful => Remembers

LEMMA SnapsKnown ==
    ASSUME NEW S, NEW K, SnapsFollow(S, K)
    PROVE  /\ Len(S) \in Nat \ {0} /\ S # <<>>
           /\ \A i \in 1..Len(S) : S[i].tick \in Nat /\ Formed(S[i]) /\ S[1].tick <= S[i].tick
<1>1. IsSeq(S) /\ Len(S) \in Nat \ {0} /\ S # <<>>
    BY Appended, NoSeq DEF SnapsFollow
<1>2. ASSUME NEW i \in 1..Len(S) PROVE S[i].tick \in Nat /\ Formed(S[i])
    BY DEF SnapsFollow, Follows, Formed
<1>3. ASSUME NEW i \in 1..Len(S) PROVE S[1].tick <= S[i].tick
    <2>1. 1 \in 1..Len(S) /\ (i = 1 \/ 1 < i)
        BY <1>1
    <2>2. 1 < i => S[1].tick < S[i].tick
        BY <2>1 DEF SnapsFollow
    <2> QED
        BY <1>2, <2>1, <2>2
<1> QED
    BY <1>1, <1>2, <1>3

LEMMA SnapshotFollows ==
    ASSUME NEW S, NEW K, SnapsFollow(S, K), NEW M, NEW F, Follows(M, F), S[Len(S)].tick + Interval <= M.tick,
           NEW k, k = [tick |-> M.tick, frames |-> F]
    PROVE  SnapsFollow(Kept(Append(S, M)), Kept(Append(K, k)))
<1>0. PICK A, B : A = Append(S, M) /\ B = Append(K, k)
    OBVIOUS
<1>1. Len(S) \in Nat \ {0} /\ M.tick \in Nat
    BY SnapsKnown DEF Follows, Formed
<1>2. /\ IsSeq(A) /\ Len(A) = Len(S) + 1 /\ A[Len(S) + 1] = M /\ \A i \in 1..Len(S) : A[i] = S[i]
    BY <1>0, Appended DEF SnapsFollow
<1>3. /\ IsSeq(B) /\ Len(B) = Len(S) + 1 /\ B[Len(S) + 1] = k /\ \A i \in 1..Len(S) : B[i] = K[i]
    BY <1>0, Appended DEF SnapsFollow
<1>4. SnapsFollow(A, B)
    <2>1. ASSUME NEW i \in 1..Len(A) PROVE B[i].tick = A[i].tick /\ Follows(A[i], B[i].frames)
        <3>1. CASE i = Len(S) + 1
            BY <1>2, <1>3, <3>1
        <3>2. CASE i # Len(S) + 1
            <4>1. i \in 1..Len(S)
                BY <1>1, <1>2, <3>2
            <4> QED
                BY <1>2, <1>3, <4>1 DEF SnapsFollow
        <3> QED
            BY <3>1, <3>2
    <2>2. ASSUME NEW i \in 1..Len(A), NEW j \in 1..Len(A), i < j PROVE A[i].tick < A[j].tick
        <3>1. i \in 1..Len(S) /\ A[i] = S[i]
            BY <1>1, <1>2, <2>2
        <3>2. CASE j = Len(S) + 1
            <4>1. S[i].tick \in Nat /\ S[Len(S)].tick \in Nat /\ Len(S) \in 1..Len(S)
                BY <1>1, <3>1, SnapsKnown
            <4>2. S[i].tick <= S[Len(S)].tick
                BY <3>1, <4>1 DEF SnapsFollow
            <4>3. Interval \in Nat \ {0}
                BY SessionAssumption
            <4> QED
                BY <1>1, <1>2, <3>1, <3>2, <4>1, <4>2, <4>3
        <3>3. CASE j # Len(S) + 1
            <4>1. j \in 1..Len(S) /\ A[j] = S[j]
                BY <1>1, <1>2, <3>3
            <4> QED
                BY <2>2, <3>1, <4>1 DEF SnapsFollow
        <3> QED
            BY <3>2, <3>3
    <2> QED
        BY <1>1, <1>2, <1>3, <2>1, <2>2 DEF SnapsFollow
<1>5. CASE Len(A) > MaxSnapshots
    <2>1. Kept(A) = Tail(A) /\ Kept(B) = Tail(B)
        BY <1>2, <1>3, <1>5 DEF Kept
    <2>2. /\ IsSeq(Tail(A)) /\ Len(Tail(A)) = Len(S) /\ \A i \in 1..Len(S) : Tail(A)[i] = A[i + 1]
        BY <1>1, <1>2, Tailed
    <2>3. /\ IsSeq(Tail(B)) /\ Len(Tail(B)) = Len(S) /\ \A i \in 1..Len(S) : Tail(B)[i] = B[i + 1]
        BY <1>1, <1>2, <1>3, Tailed
    <2>4. \A i \in 1..Len(S) : i + 1 \in 1..Len(A)
        BY <1>1, <1>2
    <2>5. \A i \in 1..Len(S) : Tail(B)[i].tick = Tail(A)[i].tick /\ Follows(Tail(A)[i], Tail(B)[i].frames)
        BY <1>4, <2>2, <2>3, <2>4 DEF SnapsFollow
    <2>6. ASSUME NEW i \in 1..Len(S), NEW j \in 1..Len(S), i < j PROVE Tail(A)[i].tick < Tail(A)[j].tick
        <3>1. i + 1 < j + 1 /\ i + 1 \in 1..Len(A) /\ j + 1 \in 1..Len(A)
            BY <1>2, <2>4, <2>6
        <3>2. A[i + 1].tick < A[j + 1].tick
            BY <1>4, <3>1 DEF SnapsFollow
        <3> QED
            BY <2>2, <3>2
    <2> QED
        BY <1>0, <1>1, <2>1, <2>2, <2>3, <2>5, <2>6 DEF SnapsFollow
<1>6. CASE ~(Len(A) > MaxSnapshots)
    <2>1. Kept(A) = A /\ Kept(B) = B
        BY <1>2, <1>3, <1>6 DEF Kept
    <2> QED
        BY <1>0, <1>4, <2>1
<1> QED
    BY <1>5, <1>6

(* stepOnce keeps the call stack and those of the snapshots.                *)
LEMMA StepFollowed ==
    ASSUME Follows(mach, callStack), SnapsFollow(snaps, stacks), Tidy(mach), StepOnce(Step(mach))
    PROVE  /\ Follows(mach', callStack') /\ SnapsFollow(snaps', stacks') /\ mach'.tick \in Nat /\ mach.tick <= mach'.tick
           /\ Replaying => snaps' = snaps
<1>1. PICK s, frames : s = Step(mach) /\ frames = UpdateCallStack(callStack, mach, s)
    OBVIOUS
<1>2. mach' = s.m /\ callStack' = frames
    BY <1>1 DEF StepOnce
<1>3. Follows(mach', callStack')
    BY <1>1, <1>2, StepFollows
<1>4. mach'.tick \in Nat /\ mach.tick <= mach'.tick
    <2>1. Formed(mach) /\ mach.tick \in Nat
        BY DEF Follows, Formed
    <2>2. Waits(mach) => s.m.tick = mach.tick
        BY <1>1, <2>1, WaitingOnce
    <2>3. ~Waits(mach) => s.m.tick = mach.tick + 1
        BY <1>1, <2>1, Retires
    <2> QED
        BY <1>2, <2>1, <2>2, <2>3
<1>5. CASE ~Replaying /\ SnapshotDue(mach.tick)
    <2>1. PICK k : k = [tick |-> mach.tick, frames |-> callStack]
        OBVIOUS
    <2>2. snaps' = Kept(Append(snaps, mach)) /\ stacks' = Kept(Append(stacks, k))
        BY <1>5, <2>1 DEF StepOnce
    <2>3. snaps[Len(snaps)].tick + Interval <= mach.tick
        BY <1>5, SnapsKnown DEF SnapshotDue
    <2> QED
        BY <1>3, <1>4, <1>5, <2>1, <2>2, <2>3, SnapshotFollows
<1>6. CASE ~(~Replaying /\ SnapshotDue(mach.tick))
    <2>1. snaps' = snaps /\ stacks' = stacks
        BY <1>6 DEF StepOnce
    <2> QED
        BY <1>3, <1>4, <2>1
<1> QED
    BY <1>5, <1>6

(* Restoring a snapshot puts back the call stack kept with it.              *)
LEMMA BackFollows ==
    ASSUME SnapsFollow(snaps, stacks), Formed(mach), NEW tick \in Nat, OldestTick <= tick,
           NEW next, ReplayTo(tick, next), faithful'
    PROVE  Follows(mach', callStack') /\ OldestTick <= mach'.tick /\ cmd' = [next EXCEPT !.mode = "replay", !.tick = tick]
<1>1. /\ Len(snaps) \in Nat \ {0}
      /\ \A i \in 1..Len(snaps) : snaps[i].tick \in Nat /\ Formed(snaps[i]) /\ snaps[1].tick <= snaps[i].tick
    BY SnapsKnown
<1>2. PICK n : n = Nearest(tick)
    OBVIOUS
<1>3. n \in 1..Len(snaps)
    <2> DEFINE at == {i \in 1..Len(snaps) : snaps[i].tick <= tick}
    <2>1. at \in SUBSET (0..Len(snaps)) /\ 1 \in at
        BY <1>1 DEF OldestTick
    <2>2. \E i \in at : \A j \in at : j <= i
        <3> HIDE DEF at
        <3> QED
            BY <1>1, <2>1, Greatest
    <2>3. n \in at
        BY <1>2, <2>2 DEF Nearest
    <2> QED
        BY <2>3
<1>4. PICK snap : snap = snaps[n]
    OBVIOUS
<1>5. PICK which : which = InputsBetween(snap.tick, tick)
    OBVIOUS
<1>6. PICK r : r = MachineRestored(mach, snap)
    OBVIOUS
<1>7. mach' = AllTyped(r, which) /\ mach.depth = 0 /\ snap.depth = 0
    BY <1>2, <1>4, <1>5, <1>6 DEF ReplayTo
<1>8. Formed(snap) /\ snap.tick \in Nat /\ OldestTick <= snap.tick
    BY <1>1, <1>3, <1>4 DEF OldestTick
<1>9. Formed(r) /\ SameStacks(snap, r) /\ r.tick = snap.tick
    <2>1. PICK d, v, o : d = mach.depth /\ v = mach.saved /\ o = mach.on /\ r = [snap EXCEPT !.depth = d, !.saved = v, !.on = o]
        BY <1>6 DEF MachineRestored
    <2>2. /\ r = [x \in MachFields |-> r[x]] /\ r.tick = snap.tick /\ r.on = o /\ r.depth = d /\ r.saved = v
          /\ r.stack = snap.stack /\ r.under = snap.under /\ r.onSystem = snap.onSystem
        BY <1>8, <2>1 DEF Formed, MachFields
    <2>3. o \in BOOLEAN /\ d = 0 /\ v = 0 /\ snap.saved = 0
        BY <1>7, <1>8, <2>1 DEF Formed
    <2> QED
        BY <1>7, <1>8, <2>2, <2>3 DEF Formed, SameStacks
<1>10. Formed(mach') /\ SameStacks(r, mach') /\ mach'.tick = r.tick
    <2>1. CASE which = {}
        BY <1>7, <1>9, <2>1 DEF AllTyped, SameStacks
    <2>2. CASE which # {}
        <3>1. PICK i, q : i = r.input \o Texts(which) /\ q = [r EXCEPT !.input = i]
            OBVIOUS
        <3>2. mach' = [q EXCEPT !.pending = TRUE, !.raised = TRUE]
            BY <1>7, <2>2, <3>1 DEF AllTyped, Raise
        <3>3. Formed(q) /\ SameStacks(r, q) /\ q.tick = r.tick
            BY <1>9, <3>1 DEF Formed, MachFields, SameStacks
        <3>4. Formed(mach') /\ SameStacks(q, mach') /\ mach'.tick = q.tick
            BY <3>2, <3>3 DEF Formed, MachFields, SameStacks
        <3> QED
            BY <3>3, <3>4 DEF SameStacks
    <2> QED
        BY <2>1, <2>2
<1>11. callStack' = stacks[n].frames
    <2> DEFINE kept == {i \in 1..Len(stacks) : stacks[i].tick = snap.tick}
    <2>1. n \in kept
        BY <1>3, <1>4 DEF SnapsFollow
    <2>2. ASSUME NEW i \in kept PROVE i = n
        <3>1. snaps[i].tick = snaps[n].tick /\ i \in 1..Len(snaps)
            BY <1>4 DEF SnapsFollow
        <3>2. ~(i < n) /\ ~(n < i)
            BY <1>1, <1>3, <3>1 DEF SnapsFollow
        <3> QED
            BY <1>1, <1>3, <3>1, <3>2
    <2>3. kept = {n}
        BY <2>1, <2>2
    <2>4. (CHOOSE i \in kept : \A j \in kept : i <= j) = n
        BY <1>1, <1>3, <2>3
    <2>5. callStack' = stacks[CHOOSE i \in kept : \A j \in kept : i <= j].frames
        BY <1>2, <1>4, <2>1 DEF ReplayTo
    <2> HIDE DEF kept
    <2> QED
        BY <2>4, <2>5
<1>12. Follows(snap, callStack')
    BY <1>3, <1>4, <1>11 DEF SnapsFollow
<1>13. Follows(mach', callStack')
    BY <1>9, <1>10, <1>12, FollowsSame
<1>14. cmd' = [next EXCEPT !.mode = "replay", !.tick = tick]
    BY DEF ReplayTo
<1> QED
    BY <1>8, <1>9, <1>10, <1>13, <1>14

LEMMA CallsStay ==
    ASSUME Remembers, UNCHANGED <<mach, callStack, snaps, stacks, cmd>>
    PROVE  Remembers'
<1>1. Reaches'
    BY DEF Remembers, Reaches, Replaying, GoingForm, OldestTick
<1> QED
    BY <1>1 DEF Remembers

LEMMA CallsForward ==
    ASSUME Follows(mach', callStack'), SnapsFollow(snaps', stacks'), cmd'.mode \notin {"replay", "scan"}
    PROVE  Remembers'
BY DEF Remembers, Reaches, Replaying

LEMMA CallsRest ==
    ASSUME Remembers, UNCHANGED <<mach, callStack, snaps, stacks>>, cmd'.mode \notin {"replay", "scan"}
    PROVE  Remembers'
BY CallsForward DEF Remembers

(* A step of a run, or of one instruction.                                  *)
LEMMA CallsStep ==
    ASSUME Remembers, Tidy(mach), StepOnce(Step(mach)), cmd'.mode \notin {"replay", "scan"}
    PROVE  Remembers'
BY StepFollowed, CallsForward DEF Remembers

LEMMA CallsBack ==
    ASSUME Remembers, UNCHANGED <<snaps, stacks>>, NEW t \in Nat, OldestTick <= t, NEW n, NEW b, NEW f, NEW l,
           ReplayTo(t, [mode |-> "replay", tick |-> 0, next |-> n, back |-> b, found |-> f, line |-> l]), faithful',
           n = "stop" \/ (b \in Nat /\ OldestTick <= b /\ f = NoTick)
    PROVE  Remembers'
<1>1. PICK next : next = [mode |-> "replay", tick |-> 0, next |-> n, back |-> b, found |-> f, line |-> l]
    OBVIOUS
<1>2. Follows(mach', callStack') /\ OldestTick <= mach'.tick /\ cmd' = [next EXCEPT !.mode = "replay", !.tick = t]
    BY <1>1, BackFollows DEF Remembers, Follows
<1>3. cmd' = [mode |-> "replay", tick |-> t, next |-> n, back |-> b, found |-> f, line |-> l]
    BY <1>1, <1>2
<1>4. OldestTick' = OldestTick
    BY DEF OldestTick
<1>5. /\ cmd'.mode = "replay" /\ cmd'.tick = t /\ cmd'.next = n /\ cmd'.back = b /\ cmd'.found = f /\ cmd'.line = l
    BY <1>3
<1>6. GoingForm'
    BY <1>3, <1>5 DEF GoingForm
<1>7. Reaches'
    BY <1>2, <1>4, <1>5, <1>6 DEF Reaches
<1> QED
    BY <1>2, <1>7 DEF Remembers

(* What a stopped session is asked to do.                                  *)
LEMMA RunCalls ==
    ASSUME Remembers, cmd.mode = "none", NEW goal, NEW limit, NEW to, Run(goal, limit, to) \/ Error
    PROVE  Remembers'
<1>1. UNCHANGED <<mach, callStack, snaps, stacks>> /\ cmd'.mode \notin {"replay", "scan"}
    BY DEF Run, Running, Error, Idle
<1> QED
    BY <1>1, CallsRest

LEMMA StepInstructionCalls ==
    ASSUME Remembers, cmd.mode = "none", StepInstruction, mach.on => Tidy(mach)
    PROVE  Remembers'
<1>1. cmd' = cmd
    BY DEF StepInstruction
<1>2. CASE mach.on
    <2>1. StepOnce(Step(mach))
        BY <1>2 DEF StepInstruction
    <2> QED
        BY <1>1, <1>2, <2>1, CallsStep
<1>3. CASE ~mach.on
    <2>1. UNCHANGED <<mach, callStack, snaps, stacks>>
        BY <1>3 DEF StepInstruction
    <2> QED
        BY <1>1, <2>1, CallsRest
<1> QED
    BY <1>2, <1>3

LEMMA BackCalls ==
    ASSUME Remembers, faithful', cmd.mode = "none", NEW tick,
           \/ RunToTick(tick) /\ tick \in Nat
           \/ StepBackInstruction \/ StepBackLine \/ ReverseContinue
    PROVE  Remembers'
<1>0. mach.tick \in Nat /\ OldestTick \in Nat
    <2>1. snaps[1].tick \in Nat
        BY SnapsKnown DEF Remembers
    <2> QED
        BY <2>1 DEF Remembers, Follows, Formed, OldestTick
<1>1. ASSUME NEW t \in Nat, RunToTick(t) PROVE Remembers'
    <2>1. CASE t < OldestTick
        BY <1>1, <2>1, RunCalls DEF RunToTick
    <2>2. CASE ~(t < OldestTick)
        <3>1. ReplayTo(t, Going("stop", NoTick)) /\ UNCHANGED <<snaps, stacks>>
            BY <1>1, <2>2 DEF RunToTick
        <3>2. ReplayTo(t, [mode |-> "replay", tick |-> 0, next |-> "stop", back |-> NoTick, found |-> NoTick, line |-> 0])
            BY <3>1 DEF Going
        <3>3. OldestTick <= t
            BY <1>0, <2>2
        <3> QED
            BY <3>1, <3>2, <3>3, CallsBack
    <2> QED
        BY <2>1, <2>2
<1>2. ASSUME NEW what \in {"line", "breakpoint"}, Scan(what) PROVE Remembers'
    <2>1. CASE mach.tick <= OldestTick
        <3>1. UNCHANGED <<mach, callStack, snaps, stacks, cmd>>
            BY <1>2, <2>1 DEF Scan
        <3> QED
            BY <3>1, CallsStay
    <2>2. CASE ~(mach.tick <= OldestTick)
        <3>1. PICK line : line = Listing[mach.pc].line
            OBVIOUS
        <3>2. [Going(what, mach.tick) EXCEPT !.line = line]
                = [mode |-> "replay", tick |-> 0, next |-> what, back |-> mach.tick, found |-> NoTick, line |-> line]
            BY DEF Going
        <3>3. ReplayTo(OldestTick, [Going(what, mach.tick) EXCEPT !.line = line]) /\ UNCHANGED <<snaps, stacks>>
            BY <1>2, <2>2, <3>1 DEF Scan
        <3>4. ReplayTo(OldestTick, [mode |-> "replay", tick |-> 0, next |-> what, back |-> mach.tick, found |-> NoTick, line |-> line])
            BY <3>2, <3>3
        <3>5. OldestTick <= mach.tick /\ OldestTick <= OldestTick
            BY <1>0, <2>2
        <3> QED
            BY <1>0, <3>3, <3>4, <3>5, CallsBack
    <2> QED
        BY <2>1, <2>2
<1>3. CASE StepBackInstruction
    <2>1. CASE mach.tick = 0
        <3>1. UNCHANGED <<mach, callStack, snaps, stacks, cmd>>
            BY <1>3, <2>1 DEF StepBackInstruction
        <3> QED
            BY <3>1, CallsStay
    <2>2. CASE mach.tick # 0
        <3>1. RunToTick(mach.tick - 1) /\ mach.tick - 1 \in Nat
            BY <1>0, <1>3, <2>2 DEF StepBackInstruction
        <3> QED
            BY <1>1, <3>1
    <2> QED
        BY <2>1, <2>2
<1> QED
    BY <1>1, <1>2, <1>3 DEF StepBackLine, ReverseContinue

LEMMA BareFollows ==
    ASSUME NEW m, Bare(m), NEW frames, frames = ResetCallStack(m)
    PROVE  Follows(m, frames)
<1>1. m.stack = <<>> /\ m.under = <<>> /\ m.depth = 0 /\ m.onSystem = FALSE /\ Formed(m)
    BY DEF Bare
<1>2. Stacked(m)
    BY <1>1, NoSeq DEF Stacked
<1>3. Len(Returns(m)) = 0
    <2>1. Len(Returns(m)) = Len(m.under) + Len(m.stack)
        BY <1>2, StacksJoin
    <2>2. Len(m.under) = 0 /\ Len(m.stack) = 0
        BY <1>1, NoSeq
    <2> QED
        BY <2>1, <2>2
<1>4. IsSeq(frames) /\ Len(frames) = 1
    BY OneSeq DEF ResetCallStack
<1> QED
    BY <1>1, <1>2, <1>3, <1>4 DEF Follows

LEMMA BeginCalls ==
    ASSUME cmd.mode = "none", NEW m, NEW stopOnEntry, Begin(m, stopOnEntry), Bare(m), mach' = m
    PROVE  Remembers' /\ started' = TRUE
<1>1. PICK frames : frames = ResetCallStack(m)
    OBVIOUS
<1>2. PICK k : k = [tick |-> 0, frames |-> frames]
    OBVIOUS
<1>3. callStack' = frames /\ snaps' = <<m>> /\ stacks' = <<k>> /\ started' = TRUE
    BY <1>1, <1>2 DEF Begin
<1>4. cmd'.mode \in {"none", "run"}
    BY DEF Begin, Running
<1>5. Follows(m, frames) /\ m.tick = 0
    BY <1>1, BareFollows DEF Bare
<1>6. SnapsFollow(<<m>>, <<k>>)
    <2>1. /\ IsSeq(<<m>>) /\ Len(<<m>>) = 1 /\ <<m>>[1] = m /\ IsSeq(<<k>>) /\ Len(<<k>>) = 1 /\ <<k>>[1] = k
        BY OneSeq
    <2> QED
        BY <1>2, <1>5, <2>1 DEF SnapsFollow
<1> QED
    BY <1>3, <1>4, <1>5, <1>6, CallsForward

(* One turn of the loop of the command in progress.                         *)
LEMMA RunUntilCalls ==
    ASSUME Remembers, CommandOK, RunUntil, mach.on => Tidy(mach)
    PROVE  Remembers'
<1>1. CASE cmd' = Idle /\ UNCHANGED <<mach, callStack, snaps, stacks>>
    <2>1. cmd'.mode \notin {"replay", "scan"}
        BY <1>1 DEF Idle
    <2> QED
        BY <1>1, <2>1, CallsRest
<1>2. CASE mach.on /\ StepOnce(Step(mach)) /\ (cmd' = Idle \/ cmd' = [cmd EXCEPT !.left = @ - 1, !.first = FALSE])
    <2>1. cmd'.mode \notin {"replay", "scan"}
        <3>1. CASE cmd' = Idle
            BY <3>1 DEF Idle
        <3>2. CASE cmd' = [cmd EXCEPT !.left = @ - 1, !.first = FALSE]
            <4>1. cmd'.mode = cmd.mode /\ cmd.mode = "run"
                BY <3>2 DEF CommandOK, RunUntil
            <4> QED
                BY <4>1
        <3> QED
            BY <1>2, <3>1, <3>2
    <2> QED
        BY <1>2, <2>1, CallsStep
<1> QED
    BY <1>1, <1>2 DEF RunUntil, Stopped

LEMMA ReplayStepCalls ==
    ASSUME Remembers, ReplayStep, mach.on => Tidy(mach)
    PROVE  Remembers'
<1>1. Replaying /\ StepOnce(Step(mach)) /\ cmd' = cmd /\ Tidy(mach)
    BY DEF ReplayStep, Replaying
<1>2. /\ Follows(mach', callStack') /\ SnapsFollow(snaps', stacks') /\ mach'.tick \in Nat /\ mach.tick <= mach'.tick
      /\ snaps' = snaps
    BY <1>1, StepFollowed DEF Remembers
<1>3. OldestTick' = OldestTick /\ OldestTick \in Nat /\ mach.tick \in Nat
    <2>1. snaps[1].tick \in Nat
        BY SnapsKnown DEF Remembers
    <2>2. mach.tick \in Nat
        BY DEF Remembers, Follows, Formed
    <2> QED
        BY <1>2, <2>1, <2>2 DEF OldestTick
<1>4. Reaches /\ OldestTick <= mach'.tick
    BY <1>1, <1>2, <1>3 DEF Remembers, Reaches
<1>5. Reaches'
    <2>1. GoingForm' <=> GoingForm
        BY <1>1 DEF GoingForm
    <2> QED
        BY <1>1, <1>3, <1>4, <2>1 DEF Reaches, Replaying
<1> QED
    BY <1>2, <1>5 DEF Remembers

LEMMA ReplayEndsCalls ==
    ASSUME Remembers, ReplayEnds
    PROVE  Remembers'
<1>1. cmd.mode = "replay" /\ Replaying /\ UNCHANGED <<mach, callStack, snaps, stacks>>
    BY DEF ReplayEnds, Replaying
<1>2. CASE cmd.next = "stop"
    <2>1. cmd'.mode = "none"
        BY <1>2 DEF ReplayEnds, Idle
    <2> QED
        BY <1>1, <2>1, CallsRest
<1>3. CASE cmd.next # "stop"
    <2>1. cmd' = [cmd EXCEPT !.mode = "scan"]
        BY <1>3 DEF ReplayEnds
    <2>2. cmd = [mode |-> cmd.mode, tick |-> cmd.tick, next |-> cmd.next, back |-> cmd.back, found |-> cmd.found,
                 line |-> cmd.line]
        BY <1>1 DEF Remembers, Reaches, GoingForm
    <2>3. cmd' = [mode |-> "scan", tick |-> cmd.tick, next |-> cmd.next, back |-> cmd.back, found |-> cmd.found,
                  line |-> cmd.line]
        BY <2>1, <2>2
    <2>4. /\ cmd'.mode = "scan" /\ cmd'.tick = cmd.tick /\ cmd'.next = cmd.next /\ cmd'.back = cmd.back
          /\ cmd'.found = cmd.found /\ cmd'.line = cmd.line
        BY <2>3
    <2>5. GoingForm'
        BY <2>3, <2>4 DEF GoingForm
    <2>6. OldestTick' = OldestTick
        BY <1>1 DEF OldestTick
    <2>7. Reaches'
        BY <1>1, <1>3, <2>4, <2>5, <2>6 DEF Remembers, Reaches
    <2> QED
        BY <1>1, <2>7 DEF Remembers
<1> QED
    BY <1>2, <1>3

LEMMA ScanStepCalls ==
    ASSUME Remembers, ScanStep, mach.on => Tidy(mach)
    PROVE  Remembers'
<1>1. Replaying /\ cmd.mode = "scan" /\ StepOnce(Step(mach)) /\ Tidy(mach)
    BY DEF ScanStep, Replaying
<1>2. /\ Follows(mach', callStack') /\ SnapsFollow(snaps', stacks') /\ mach'.tick \in Nat /\ mach.tick <= mach'.tick
      /\ snaps' = snaps
    BY <1>1, StepFollowed DEF Remembers
<1>3. OldestTick' = OldestTick /\ OldestTick \in Nat /\ mach.tick \in Nat
    <2>1. snaps[1].tick \in Nat
        BY SnapsKnown DEF Remembers
    <2>2. mach.tick \in Nat
        BY DEF Remembers, Follows, Formed
    <2> QED
        BY <1>2, <2>1, <2>2 DEF OldestTick
<1>4. Reaches /\ OldestTick <= mach'.tick
    BY <1>1, <1>2, <1>3 DEF Remembers, Reaches
<1>5. cmd' = cmd \/ cmd' = [cmd EXCEPT !.found = mach'.tick]
    BY <1>1 DEF ScanStep, StepOnce
<1>6. cmd = [mode |-> cmd.mode, tick |-> cmd.tick, next |-> cmd.next, back |-> cmd.back, found |-> cmd.found,
             line |-> cmd.line]
    BY <1>1, <1>4 DEF Reaches, GoingForm
<1>7. /\ cmd'.mode = "scan" /\ cmd'.next = cmd.next /\ cmd'.back = cmd.back /\ GoingForm'
      /\ cmd'.found = cmd.found \/ cmd'.found = mach'.tick
    <2>1. CASE cmd' = cmd
        BY <1>1, <1>6, <2>1 DEF GoingForm
    <2>2. CASE cmd' = [cmd EXCEPT !.found = mach'.tick]
        <3>1. PICK t : t = mach'.tick
            OBVIOUS
        <3>2. cmd' = [mode |-> cmd.mode, tick |-> cmd.tick, next |-> cmd.next, back |-> cmd.back, found |-> t,
                      line |-> cmd.line]
            BY <1>6, <2>2, <3>1
        <3>3. /\ cmd'.mode = cmd.mode /\ cmd'.tick = cmd.tick /\ cmd'.next = cmd.next /\ cmd'.back = cmd.back
              /\ cmd'.found = t /\ cmd'.line = cmd.line
            BY <3>2
        <3> QED
            BY <1>1, <3>1, <3>2, <3>3 DEF GoingForm
    <2> QED
        BY <1>5, <2>1, <2>2
<1>8. Reaches'
    BY <1>1, <1>2, <1>3, <1>4, <1>7 DEF Reaches
<1> QED
    BY <1>2, <1>8 DEF Remembers

LEMMA ScanEndsCalls ==
    ASSUME Remembers, faithful', ScanEnds
    PROVE  Remembers'
<1>1. PICK to : to = IF cmd.found = NoTick THEN cmd.back ELSE cmd.found
    OBVIOUS
<1>2. PICK found : found = IF cmd.next = "breakpoint" THEN to ELSE NoTick
    OBVIOUS
<1>3. cmd.mode = "scan" /\ Replaying /\ UNCHANGED <<snaps, stacks>>
    BY DEF ScanEnds, Replaying
<1>4. to \in Nat /\ OldestTick <= to
    BY <1>1, <1>3 DEF Remembers, Reaches
<1>5. ReplayTo(to, [Going("stop", NoTick) EXCEPT !.found = found])
    BY <1>1, <1>2 DEF ScanEnds
<1>6. [Going("stop", NoTick) EXCEPT !.found = found]
        = [mode |-> "replay", tick |-> 0, next |-> "stop", back |-> NoTick, found |-> found, line |-> 0]
    BY DEF Going
<1>7. ReplayTo(to, [mode |-> "replay", tick |-> 0, next |-> "stop", back |-> NoTick, found |-> found, line |-> 0])
    BY <1>5, <1>6
<1> QED
    BY <1>3, <1>4, <1>7, CallsBack

LEMMA TurnCalls ==
    ASSUME Remembers, CommandOK, faithful', SessionTurn, mach.on => Tidy(mach)
    PROVE  Remembers'
BY RunUntilCalls, ReplayStepCalls, ReplayEndsCalls, ScanStepCalls, ScanEndsCalls DEF SessionTurn

LEMMA CallsUntouched ==
    ASSUME CInv, UNCHANGED <<mach, callStack, snaps, stacks, started, cmd, faithful, configured>>
    PROVE  CInv'
<1>1. Remembers => Remembers'
    BY CallsStay
<1>2. Bare(mach') <=> Bare(mach)
    OBVIOUS
<1> QED
    BY <1>1, <1>2 DEF CInv

LEMMA TurnKeepsCalls ==
    ASSUME CInv, BInv, ProgramIsTidy, SessionTurn, configured' = configured
    PROVE  CInv'
<1>1. started' = started /\ (faithful' => faithful) /\ cmd.mode # "none"
    <2>1. CASE RunUntil
        BY <2>1 DEF RunUntil
    <2>2. CASE ReplayStep \/ ReplayEnds \/ ScanStep
        BY <2>2 DEF ReplayStep, ReplayEnds, ScanStep
    <2>3. CASE ScanEnds
        <3>1. \A to, next : ReplayTo(to, next) => (faithful' => faithful)
            BY DEF ReplayTo
        <3> QED
            BY <2>3, <3>1 DEF ScanEnds
    <2> QED
        BY <2>1, <2>2, <2>3 DEF SessionTurn
<1>2. started
    BY <1>1 DEF CInv
<1>3. faithful' => Remembers'
    BY <1>1, <1>2, TurnCalls DEF CInv, BInv, ProgramIsTidy
<1> QED
    BY <1>1, <1>2, <1>3 DEF CInv

LEMMA TypedKeeps ==
    ASSUME NEW m, Formed(m), NEW text, NEW t, t = Typed(m, text)
    PROVE  Formed(t) /\ SameStacks(m, t) /\ t.tick = m.tick
<1>1. PICK i, r : i = Append(m.input, text) /\ r = [m EXCEPT !.input = i]
    OBVIOUS
<1>2. t = [r EXCEPT !.pending = TRUE, !.raised = TRUE]
    BY <1>1 DEF Typed, Raise
<1>3. Formed(r) /\ SameStacks(m, r) /\ r.tick = m.tick
    BY <1>1 DEF Formed, MachFields, SameStacks
<1>4. Formed(t) /\ SameStacks(r, t) /\ t.tick = r.tick
    BY <1>2, <1>3 DEF Formed, MachFields, SameStacks
<1> QED
    BY <1>3, <1>4 DEF SameStacks

LEMMA RequestKeepsCalls ==
    ASSUME DInv, BInv, CInv, ProgramIsTidy,
           ConfigurationDone \/ RestartRequest \/ RunRequest \/ BackRequest \/ EditRequest
    PROVE  CInv'
<1>0. cmd.mode = "none" /\ main.request \in Lines
    BY DEF DInv, ServerTypeOK, BInv, CarriedOut, ConfigurationDone, RestartRequest, RunRequest, BackRequest, EditRequest, Asked
<1>1. CASE ConfigurationDone
    <2>0. Start(StopOnEntry)
        BY <1>1 DEF ConfigurationDone
    <2>1. CASE started
        <3>1. Error
            BY <2>0, <2>1 DEF Start
        <3>2. Remembers => Remembers'
            BY <1>0, <3>1, RunCalls
        <3>3. UNCHANGED <<started, faithful>>
            BY <3>1 DEF Error
        <3> QED
            BY <2>1, <3>2, <3>3 DEF CInv
    <2>2. CASE ~started
        <3>1. Begin(mach, StopOnEntry) /\ mach' = mach /\ faithful' = faithful
            BY <2>0, <2>2 DEF Start
        <3>2. started' = TRUE
            BY <3>1 DEF Begin
        <3>3. faithful => Remembers'
            BY <1>0, <2>2, <3>1, BeginCalls DEF CInv
        <3> QED
            BY <3>1, <3>2, <3>3 DEF CInv
    <2> QED
        BY <2>1, <2>2
<1>2. CASE RestartRequest
    <2>1. Begin(FreshMachine, StopOnEntry) /\ mach' = FreshMachine
        BY <1>2 DEF RestartRequest, RestartSession
    <2>2. Bare(FreshMachine)
        BY FreshForm DEF Bare, FreshMachine
    <2>3. Remembers' /\ started' = TRUE
        BY <1>0, <2>1, <2>2, BeginCalls
    <2> QED
        BY <2>3 DEF CInv
<1>3. CASE RunRequest
    <2>1. UNCHANGED <<started, faithful, configured>> /\ configured
        BY <1>3 DEF RunRequest, Commanded, Resume, StepOver, StepLine, StepOut, StepInstruction, RunToAddress, Run
    <2>2. Remembers /\ faithful => Remembers'
        <3>1. CASE StepInstruction
            BY <1>0, <2>1, <3>1, StepInstructionCalls DEF CInv, ProgramIsTidy
        <3>2. CASE Resume \/ StepOver \/ StepLine \/ StepOut \/ RunToAddress(main.request.arg)
            BY <1>0, <3>2, RunCalls DEF Resume, StepOver, StepLine, StepOut, RunToAddress
        <3> QED
            BY <1>3, <3>1, <3>2 DEF RunRequest
    <2> QED
        BY <2>1, <2>2 DEF CInv
<1>4. CASE BackRequest
    <2>1. UNCHANGED <<started, configured>> /\ (faithful' => faithful) /\ configured
        BY <1>4 DEF BackRequest, Commanded, StepBackLine, StepBackInstruction, ReverseContinue, RunToTick, Scan, Error,
                    ReplayTo
    <2>2. \/ RunToTick(main.request.arg) /\ main.request.arg \in Nat
          \/ StepBackInstruction \/ StepBackLine \/ ReverseContinue
        <3>1. Asked("runToTick") => main.request.arg \in Nat
            BY <1>0, RequestsAssumption DEF Asked, Lines, NoRequest
        <3> QED
            BY <1>4, <3>1 DEF BackRequest
    <2>3. Remembers /\ faithful' => Remembers'
        BY <1>0, <2>2, BackCalls
    <2> QED
        BY <2>1, <2>3 DEF CInv
<1>5. CASE EditRequest
    <2>0. configured' = configured
        BY <1>5 DEF EditRequest
    <2>1. ASSUME NEW new, SetBreakpoints(new) PROVE CInv'
        BY <2>0, <2>1, CallsUntouched DEF SetBreakpoints
    <2>2. ASSUME NEW pc, SetProgramCounter(pc) PROVE CInv'
        BY <2>0, <2>2 DEF SetProgramCounter, CInv
    <2>3. ASSUME NEW text, PushInput(text) PROVE CInv'
        <3>1. mach' = Typed(mach, text) /\ UNCHANGED <<started, cmd, faithful, callStack, snaps, stacks>>
            BY <2>3 DEF PushInput
        <3>2. Formed(mach) => Formed(mach') /\ SameStacks(mach, mach') /\ mach'.tick = mach.tick
            BY <3>1, TypedKeeps
        <3>3. Remembers => Remembers'
            <4>1. ASSUME Remembers PROVE Follows(mach', callStack') /\ SnapsFollow(snaps', stacks') /\ cmd'.mode = "none"
                BY <1>0, <3>1, <3>2, <4>1, FollowsSame DEF Remembers, Follows
            <4> QED
                BY <4>1, CallsForward
        <3>4. Bare(mach) => Bare(mach')
            BY <3>2 DEF Bare, SameStacks
        <3> QED
            BY <2>0, <3>1, <3>3, <3>4 DEF CInv
    <2> QED
        BY <1>5, <2>1, <2>2, <2>3 DEF EditRequest
<1> QED
    BY <1>1, <1>2, <1>3, <1>4, <1>5

LEMMA CallsKept ==
    ASSUME DInv, BInv, CInv, ProgramIsTidy, [DebugNext]_debugVars
    PROVE  CInv'
<1>1. CASE ConfigurationDone \/ RestartRequest \/ RunRequest \/ BackRequest \/ EditRequest
    BY <1>1, RequestKeepsCalls
<1>2. CASE Busy
    BY <1>2, TurnKeepsCalls DEF Busy, threads
<1>3. CASE UNCHANGED debugVars \/ Client
    BY <1>3, CallsUntouched DEF debugVars, sessionVars, Client, ClosePipe, Ask, threads
<1>4. CASE TellSession
    BY <1>4, CallsUntouched DEF TellSession
<1>5. CASE ReadLine \/ ReadEnd \/ TakeControl \/ Push \/ CloseInput \/ Notify
    BY <1>5, CallsUntouched DEF ReadLine, ReadEnd, TakeControl, Push, CloseInput, Notify, sessionVars
<1>6. CASE Look \/ Sleep \/ WakeForNothing \/ Terminate \/ OnlyAnswer \/ Destroy \/ ReportStop
    BY <1>6, CallsUntouched DEF Look, Sleep, WakeForNothing, Terminate, OnlyAnswer, Destroy, ReportStop, sessionVars
<1> QED
    BY <1>1, <1>2, <1>3, <1>4, <1>5, <1>6 DEF DebugNext, Reader, Main

LEMMA CallsStart == DebugInit => CInv
<1>1. ASSUME DebugInit PROVE CInv
    <2>1. mach = FreshMachine /\ started = FALSE /\ configured = FALSE /\ cmd.mode = "none"
        BY <1>1 DEF DebugInit, SessionInit, Idle
    <2>2. Bare(FreshMachine)
        BY FreshForm DEF Bare, FreshMachine
    <2> QED
        BY <2>1, <2>2 DEF CInv
<1> QED
    BY <1>1

(* The frames the session shows are those of the return addresses on the    *)
(* machine's stacks, with the stack pointer each was pushed at; the same is *)
(* true of those kept with each snapshot, so that it stays true after going *)
(* back: of a program whose calls and returns are matched.                  *)
THEOREM CallStackInductive == DebugSpec /\ []ProgramIsTidy => []CInv
BY CallsStart, CallsKept, BreakpointsInductive, ServerInductive, PTL DEF DebugSpec

LEMMA CallStackTold == CInv => CallStackFollows
<1>1. ASSUME CInv, started, faithful
      PROVE  [i \in 1..Len(callStack) - 1 |-> callStack[i + 1].ret] = Returns(mach)
    <2>1. Follows(mach, callStack)
        BY <1>1 DEF CInv, Remembers
    <2>2. PICK r : r = Returns(mach)
        OBVIOUS
    <2>3. IsSeq(r) /\ Len(r) \in Nat /\ Len(callStack) = Len(r) + 1 /\ \A k \in 1..Len(r) : callStack[k + 1].ret = r[k]
        BY <2>1, <2>2, StacksJoin, StacksTop DEF Follows
    <2>4. r = [k \in 1..Len(r) |-> r[k]]
        <3>1. PICK T : r \in Seq(T)
            BY <2>3 DEF IsSeq
        <3> QED
            BY <3>1
    <2>5. Len(callStack) - 1 = Len(r)
        BY <2>3
    <2> QED
        BY <2>2, <2>3, <2>4, <2>5
<1> QED
    BY <1>1 DEF CallStackFollows

(* The user is shown the program's call stack, however the session goes     *)
(* forward and back, and every plain breakpoint stops the run that comes to *)
(* it: of any program whose calls and returns are matched.                  *)
THEOREM SessionStaysTrue == DebugSpec /\ []ProgramIsTidy => []SessionIsTrue
<1>1. CInv /\ NoBreakpointRunOver => SessionIsTrue
    BY CallStackTold DEF SessionIsTrue
<1> QED
    BY <1>1, CallStackInductive, BreakpointsStop, PTL

=============================================================================
