----------------------------- MODULE DeviceClock -----------------------------
(***************************************************************************)
(* The machine's time and the devices that keep it: the scheduler, the     *)
(* timer's countdown and alarm, a DMA transfer, and the GPU's copy engine. *)
(* The CPU executes instructions that cost cycles and write the devices'   *)
(* registers; events that came due are serviced before the next one, and a *)
(* halted machine's clock jumps to the next event.                         *)
(*                                                                         *)
(* A word holds Word values and a second a few nanoseconds, so that the    *)
(* two-word instants and the conversions round as the real ones do.        *)
(***************************************************************************)
EXTENDS Scheduler

CONSTANTS
  Rates,      \* the machine's clocks: clockHz(), and NanosPerSecond beside it
  Word,       \* values of a register
  Costs,      \* what an instruction may cost
  MaxClock,   \* bound: the last cycle
  Lengths,    \* the bytes a transfer may move
  Requests,   \* what the copy engine's registers may ask for
  Backed      \* those wholly in RAM or wholly in VRAM

Timer == "timer"
Dma == "dma"
Gpu == "gpu"
Countdown == 0
Alarm == 1

ASSUME DeviceAssumption == Devices = {Timer, Dma, Gpu} /\ Tags = {Countdown, Alarm} /\ MaxEvents >= 4
ASSUME ClockAssumption ==
  /\ Rates \subseteq [hz : Nat \ {0}, nanos : Nat \ {0}] /\ Word \in Nat \ {0}
  /\ Costs \subseteq Nat \ {0} /\ MaxClock \in Nat /\ MaxClock + Word + 1 < Never
ASSUME CopyAssumption == Lengths \subseteq Nat /\ Backed \subseteq Requests

VARIABLES
  rate,     \* Scheduler::_clockHz, set before the machine starts
  clock,    \* ExecutionEngine::_cycles
  table,    \* the scheduler
  phase,    \* "service": in Scheduler::service(); "look": past it
  sleeping,   \* the Halting flag
  raised,   \* a request was raised since the last wake
  timer,    \* TimerDevice
  dma,      \* DmaController::_pending
  copy,     \* CopyEngine: its registers, and busy
  armed     \* history: the cycle the countdown was armed on and its alarms since

clockVars == <<rate, clock, table, phase, sleeping, raised, timer, dma, copy, armed>>

ClockTypeOK ==
  /\ rate \in Rates /\ clock \in 0 .. MaxClock /\ table \in Table
  /\ phase \in {"service", "look"}
  /\ sleeping \in BOOLEAN /\ raised \in BOOLEAN
  /\ timer \in [deadline : 0 .. Never - 1, periodic : BOOLEAN, period : 0 .. Word - 1,
                alarm : 0 .. Word * Word - 1, low : 0 .. Word - 1]
  /\ dma \in BOOLEAN
  /\ copy \in [request : Requests, busy : BOOLEAN]
  /\ armed \in [at : 0 .. MaxClock, ticks : Nat]

ClockAt(p) ==
  /\ rate \in Rates
  /\ clock = 0 /\ table = EmptyTable /\ phase = p /\ sleeping = FALSE /\ raised = FALSE
  /\ timer = [deadline |-> 0, periodic |-> FALSE, period |-> 0, alarm |-> 0, low |-> 0]
  /\ dma = FALSE
  /\ copy \in [request : Requests, busy : {FALSE}]
  /\ armed = [at |-> 0, ticks |-> 0]
ClockInit == ClockAt("service")

-----------------------------------------------------------------------------
(* The timer's two clocks.                                                 *)

(* nanos() after so many cycles.                                           *)
NanosAt(cycles) == (cycles \div rate.hz) * rate.nanos + ((cycles % rate.hz) * rate.nanos) \div rate.hz

Part(instant) == ((instant % rate.nanos) * rate.hz + rate.nanos - 1) \div rate.nanos
AlarmSeconds(instant) == instant \div rate.nanos

(* Mutant: the nanoseconds are rounded up on top of a whole cycle.         *)
CycleAtNanosLateMutant(instant) ==
  IF AlarmSeconds(instant) > (Never - 2 - Part(instant)) \div rate.hz THEN Never - 1
  ELSE AlarmSeconds(instant) * rate.hz + ((instant % rate.nanos) * rate.hz + rate.nanos) \div rate.nanos

(* Mutant: the nanoseconds are rounded down.                               *)
CycleAtNanosEarlyMutant(instant) ==
  IF AlarmSeconds(instant) > (Never - 1 - Part(instant)) \div rate.hz THEN Never - 1
  ELSE AlarmSeconds(instant) * rate.hz + ((instant % rate.nanos) * rate.hz) \div rate.nanos

(* The first cycle at or after an instant; one the counter cannot reach is *)
(* as good as never.                                                       *)
CycleAtNanos(instant) ==
  IF AlarmSeconds(instant) > (Never - 1 - Part(instant)) \div rate.hz THEN Never - 1
  ELSE AlarmSeconds(instant) * rate.hz + Part(instant)

(* syncCountdown(): the table follows the deadline.                        *)
SyncCountdown(t, deadline) ==
  IF deadline # 0 THEN Schedule(t, Timer, deadline, Countdown) ELSE Cancel(t, Timer, Countdown)

(* syncAlarm(), at a cycle: disarmed, fired, or scheduled.                 *)
AlarmDue(instant, now) == instant # 0 /\ NanosAt(now) >= instant
SyncAlarm(t, instant, now) ==
  IF instant = 0 \/ AlarmDue(instant, now) THEN Cancel(t, Timer, Alarm)
  ELSE Schedule(t, Timer, CycleAtNanos(instant), Alarm)

(* How long a transfer and a copy take: at least a cycle.                  *)
CyclesFor(length) == IF length = 0 THEN 1 ELSE (length + 7) \div 8
CopyCycles == 2

ASSUME TransferAssumption == \A length \in Lengths : MaxClock + CyclesFor(length) < Never

-----------------------------------------------------------------------------
(* Scheduler::service(), an event at a time.                               *)

Due == phase = "service" /\ table.next <= clock
Next1 == table.events[Earliest(table)]

(* A periodic countdown starts again from the cycle it was due on.         *)
Rearm(cycle) == IF timer.periodic /\ timer.period # 0 THEN cycle + timer.period ELSE 0

CountdownEvent ==
  /\ Due /\ Next1.device = Timer /\ Next1.tag = Countdown
  /\ IF timer.deadline = 0
     THEN table' = WithoutEarliest(table) /\ UNCHANGED <<timer, raised, armed>>
     ELSE /\ raised' = TRUE
          /\ timer' = [timer EXCEPT !.deadline = Rearm(Next1.cycle)]
          /\ table' = SyncCountdown(WithoutEarliest(table), timer'.deadline)
          /\ armed' = [armed EXCEPT !.ticks = @ + 1]
  /\ UNCHANGED <<clock, phase, sleeping, dma, copy>>

AlarmEvent ==
  /\ Due /\ Next1.device = Timer /\ Next1.tag = Alarm
  /\ table' = SyncAlarm(WithoutEarliest(table), timer.alarm, clock)
  /\ IF AlarmDue(timer.alarm, clock)
     THEN raised' = TRUE /\ timer' = [timer EXCEPT !.alarm = 0]
     ELSE UNCHANGED <<raised, timer>>
  /\ UNCHANGED <<clock, phase, sleeping, dma, copy, armed>>

DmaEvent ==
  /\ Due /\ Next1.device = Dma
  /\ table' = WithoutEarliest(table)
  /\ raised' = (raised \/ dma) /\ dma' = FALSE
  /\ UNCHANGED <<clock, phase, sleeping, timer, copy, armed>>

(* The bytes move now, as the registers stand; the interrupt may be off.   *)
CopyEvent ==
  /\ Due /\ Next1.device = Gpu
  /\ table' = WithoutEarliest(table)
  /\ copy' = [copy EXCEPT !.busy = FALSE]
  /\ raised' \in {raised, TRUE}
  /\ UNCHANGED <<clock, phase, sleeping, timer, dma, armed>>

Serviced ==
  /\ phase = "service" /\ table.next > clock
  /\ phase' = "look"
  /\ UNCHANGED <<clock, table, sleeping, raised, timer, dma, copy, armed>>

-----------------------------------------------------------------------------
(* The CPU.  What was raised may also be taken, which counts as the wake.  *)

WakeUpCpu ==
  /\ phase = "look" /\ sleeping /\ raised
  /\ sleeping' = FALSE /\ raised' = FALSE
  /\ UNCHANGED <<clock, table, phase, timer, dma, copy, armed>>

(* haltedStep(): straight to the next event.                               *)
Jump ==
  /\ phase = "look" /\ sleeping /\ ~raised
  /\ table.next <= MaxClock
  /\ clock' = IF table.next > clock THEN table.next ELSE clock
  /\ phase' = "service"
  /\ UNCHANGED <<table, sleeping, raised, timer, dma, copy, armed>>

(* haltedStep() with nothing scheduled: it waits for the host, whose       *)
(* devices raise.                                                          *)
HostRaises ==
  /\ phase = "look" /\ sleeping /\ ~raised /\ table.next = Never
  /\ raised' = TRUE
  /\ UNCHANGED <<clock, table, phase, sleeping, timer, dma, copy, armed>>

(* An instruction: its cost is charged before it runs.                     *)
ExecuteFor(cost) ==
  /\ phase = "look" /\ ~sleeping
  /\ clock + cost <= MaxClock
  /\ clock' = clock + cost /\ phase' = "service"

Other(cost) ==
  /\ ExecuteFor(cost)
  /\ raised' \in {raised, FALSE}
  /\ UNCHANGED <<table, sleeping, timer, dma, copy, armed>>

HaltFor(cost) ==
  /\ ExecuteFor(cost)
  /\ sleeping' = ~raised /\ raised' = FALSE
  /\ UNCHANGED <<table, timer, dma, copy, armed>>

WriteCountdown(cost, value) ==
  /\ ExecuteFor(cost)
  /\ timer' = [timer EXCEPT !.period = value, !.deadline = IF value # 0 THEN clock' + value ELSE 0]
  /\ table' = SyncCountdown(table, timer'.deadline)
  /\ armed' = [at |-> clock', ticks |-> 0]
  /\ UNCHANGED <<sleeping, raised, dma, copy>>

WriteCountdownControl(cost, periodic) ==
  /\ ExecuteFor(cost)
  /\ timer' = [timer EXCEPT !.periodic = periodic]
  /\ UNCHANGED <<table, sleeping, raised, dma, copy, armed>>

WriteAlarmLow(cost, value) ==
  /\ ExecuteFor(cost)
  /\ timer' = [timer EXCEPT !.low = value]
  /\ UNCHANGED <<table, sleeping, raised, dma, copy, armed>>

(* The high word arms it; an instant already past fires at once.           *)
WriteAlarmHigh(cost, value) ==
  /\ ExecuteFor(cost)
  /\ LET instant == value * Word + timer.low IN
       /\ timer' = [timer EXCEPT !.low = 0, !.alarm = IF AlarmDue(instant, clock') THEN 0 ELSE instant]
       /\ raised' = (raised \/ AlarmDue(instant, clock'))
       /\ table' = SyncAlarm(table, instant, clock')
  /\ UNCHANGED <<sleeping, dma, copy, armed>>

(* Started again while it is pending, a transfer is put off.               *)
StartTransfer(cost, length) ==
  /\ ExecuteFor(cost)
  /\ dma' = TRUE
  /\ table' = Schedule(table, Dma, clock' + CyclesFor(length), 0)
  /\ UNCHANGED <<sleeping, raised, timer, copy, armed>>

WriteCopyRegisters(cost) ==
  /\ ExecuteFor(cost)
  /\ \E r \in Requests : copy' = [copy EXCEPT !.request = r]
  /\ UNCHANGED <<table, sleeping, raised, timer, dma, armed>>

(* A command is checked, and either starts or is a fault; one given while  *)
(* another runs is ignored.                                                *)
CopyCommand(cost) ==
  /\ ExecuteFor(cost)
  /\ IF copy.busy
     THEN UNCHANGED <<copy, table, raised>>
     ELSE IF copy.request \notin Backed
     THEN raised' \in {raised, TRUE} /\ UNCHANGED <<copy, table>>
     ELSE /\ copy' = [copy EXCEPT !.busy = TRUE]
          /\ table' = Schedule(table, Gpu, clock' + CopyCycles, 0)
          /\ UNCHANGED raised
  /\ UNCHANGED <<sleeping, timer, dma, armed>>

(* Mutant: a transfer that has not landed keeps its event.                 *)
RestartMutant ==
  /\ phase = "look" /\ ~sleeping
  /\ clock' = 0 /\ phase' = "service" /\ raised' = FALSE
  /\ timer' = [deadline |-> 0, periodic |-> FALSE, period |-> 0, alarm |-> 0, low |-> 0]
  /\ dma' = FALSE
  /\ \E r \in Requests : copy' = [request |-> r, busy |-> FALSE]
  /\ table' = Cancel(CancelAll(table, Timer), Gpu, 0)
  /\ armed' = [at |-> 0, ticks |-> 0]
  /\ UNCHANGED sleeping

(* A program asks for a reset, and before the next instruction the machine *)
(* starts over: the engine's clock, the pending requests, every device.    *)
Restart ==
  /\ phase = "look" /\ ~sleeping
  /\ clock' = 0 /\ phase' = "service" /\ raised' = FALSE
  /\ timer' = [deadline |-> 0, periodic |-> FALSE, period |-> 0, alarm |-> 0, low |-> 0]
  /\ dma' = FALSE
  /\ \E r \in Requests : copy' = [request |-> r, busy |-> FALSE]
  /\ table' = Cancel(Cancel(CancelAll(table, Timer), Dma, 0), Gpu, 0)
  /\ armed' = [at |-> 0, ticks |-> 0]
  /\ UNCHANGED sleeping

Instruction ==
  \E cost \in Costs :
    \/ Other(cost) \/ HaltFor(cost) \/ WriteCopyRegisters(cost) \/ CopyCommand(cost)
    \/ \E n \in Lengths : StartTransfer(cost, n)
    \/ \E p \in BOOLEAN : WriteCountdownControl(cost, p)
    \/ \E v \in 0 .. Word - 1 :
         WriteCountdown(cost, v) \/ WriteAlarmLow(cost, v) \/ WriteAlarmHigh(cost, v)

Service ==
  /\ CountdownEvent \/ AlarmEvent \/ DmaEvent \/ CopyEvent \/ Serviced
  /\ UNCHANGED rate

ClockNext == Service \/ ((WakeUpCpu \/ Jump \/ HostRaises \/ Instruction \/ Restart) /\ UNCHANGED rate)

ClockSpec == ClockInit /\ [][ClockNext]_clockVars
FairClockSpec == ClockSpec /\ WF_clockVars(Service)

-----------------------------------------------------------------------------
(* What it is for.                                                         *)

(* The cached next cycle and the table agree, and no device has two events *)
(* with one tag, whatever was scheduled, moved, cancelled and serviced     *)
(* (Scheduler).                                                            *)
TableConsistent == Consistent(table)

(* Each device and the table tell the same story: a countdown, an alarm, a *)
(* transfer or a copy in progress has its event, on the cycle the device   *)
(* expects, and nothing else has one (timer.cpp, dma.cpp, gpu.cpp).        *)
DevicesMatchTable ==
  /\ CycleOf(table, Timer, Countdown) = IF timer.deadline = 0 THEN Never ELSE timer.deadline
  /\ CycleOf(table, Timer, Alarm) = IF timer.alarm = 0 THEN Never ELSE CycleAtNanos(timer.alarm)
  /\ dma <=> CycleOf(table, Dma, 0) # Never
  /\ copy.busy <=> CycleOf(table, Gpu, 0) # Never

(* A countdown that is still armed has gone off exactly once for every     *)
(* period gone by, however late the instruction that noticed               *)
(* (TimerDevice::onEvent).                                                 *)
PeriodNeverDrifts ==
  (phase = "look" /\ timer.deadline # 0) =>
    armed.ticks = (clock - armed.at) \div timer.period

(* No instruction runs while an alarm's instant is past (cycleAtNanos).    *)
AlarmOnTime == (phase = "look" /\ timer.alarm # 0) => NanosAt(clock) < timer.alarm

(* Nothing that was due is left when the CPU goes on (step(), service()).  *)
NothingOverdue == phase = "look" => \A i \in DOMAIN table.events : table.events[i].cycle > clock

(* The devices and the cached next cycle are what the table says, and       *)
(* nothing in it has been passed over.                                     *)
ClockIsKept == ClockTypeOK /\ TableConsistent /\ DevicesMatchTable /\ NothingOverdue
(* Countdowns and alarms go off for every period and on their cycle.       *)
TimersAreExact == PeriodNeverDrifts /\ AlarmOnTime

(* service() comes to an end: no event keeps scheduling itself in the past *)
(* (syncAlarm, onEvent).                                                   *)
ServiceEnds == (phase = "service") ~> (phase = "look")
=============================================================================
