------------------------- MODULE InterruptController -------------------------
(***************************************************************************)
(* InterruptController between threads: callers raise requests and poke,   *)
(* the machine's thread polls them, halts, and sleeps in waitForRaise.     *)
(* One action per atomic operation.  The operations on the counts are      *)
(* sequentially consistent, and the mask is published before the count     *)
(* that announces it, so the actions interleave.                           *)
(*                                                                         *)
(* Two implementations of the sleep: a condition variable (POSIX), and an  *)
(* auto-reset event with a waitable timer (Windows).                       *)
(***************************************************************************)
EXTENDS Naturals

CONSTANTS
  Machine,    \* the thread that runs the machine
  Free,       \* nobody, as the holder of a mutex
  Callers,    \* threads that raise and poke: devices', the host's front end
  Numbers,    \* the interrupt numbers they raise
  Bound,      \* those with a handler
  MaxRaises,  \* bound: no request is raised past this many
  MaxPokes    \* bound: pokes

ASSUME ThreadAssumption == Machine # Free /\ {Machine, Free} \cap Callers = {}
ASSUME NumberAssumption == Numbers \subseteq 16 .. 63 /\ Bound \subseteq Numbers
ASSUME BoundAssumption == MaxRaises \in Nat /\ MaxPokes \in Nat

VARIABLES
  pending,   \* _pending
  raises,    \* _raises
  pokes,     \* _pokes
  sleepers,  \* _sleepers
  lock,      \* who holds _sleepMutex (POSIX)
  event,     \* _wakeEvent is set (Windows)
  at,        \* at[c]: where caller c is in raise(), poke() and wakeSleepers()
  pc,        \* where the machine's thread is
  enabled,   \* the Interrupt flag
  halted,    \* the Halting flag
  consumed,  \* _raisesConsumed
  seen,      \* step()'s raisesSeen
  base,      \* waitForRaise()'s pokes
  expired,   \* the deadline of this wait has passed
  windows    \* which of the two implementations this build has

shared == <<pending, raises, pokes, sleepers>>
engine == <<enabled, halted, consumed, seen>>
wait == <<base, expired, windows>>
vars == <<shared, lock, event, at, pc, engine, wait>>

InWait == {"lock", "register", "pokes", "test", "block", "asleep", "relock", "leave"}

TypeOK ==
  /\ pending \subseteq Numbers
  /\ raises \in Nat /\ pokes \in Nat /\ sleepers \in 0 .. 1
  /\ lock \in Callers \cup {Machine, Free}
  /\ at \in [Callers -> {"idle", "count", "look", "wake", "notify"}]
  /\ pc \in {"poll", "peek", "settle", "run"} \cup InWait
  /\ event \in BOOLEAN /\ enabled \in BOOLEAN /\ halted \in BOOLEAN /\ expired \in BOOLEAN
  /\ windows \in BOOLEAN
  /\ consumed \in Nat /\ seen \in Nat /\ base \in Nat

Init ==
  /\ pending = {} /\ raises = 0 /\ pokes = 0 /\ sleepers = 0
  /\ lock = Free /\ event = FALSE
  /\ at = [c \in Callers |-> "idle"]
  /\ pc = "poll" /\ enabled = FALSE /\ halted = FALSE /\ consumed = 0 /\ seen = 0
  /\ base = 0 /\ expired = FALSE /\ windows \in BOOLEAN

-----------------------------------------------------------------------------
(* The callers.                                                            *)

Step(c, from, to) == at[c] = from /\ at' = [at EXCEPT ![c] = to]

(* raise(): the bit first, then the count.                                 *)
SetPending(c) ==
  /\ Step(c, "idle", "count")
  /\ \E n \in Numbers : pending' = pending \cup {n}
  /\ raises < MaxRaises
  /\ UNCHANGED <<raises, pokes, sleepers, lock, event, pc, engine, wait>>

CountRaise(c) ==
  /\ Step(c, "count", "look")
  /\ raises' = raises + 1
  /\ UNCHANGED <<pending, pokes, sleepers, lock, event, pc, engine, wait>>

Poke(c) ==
  /\ Step(c, "idle", "look")
  /\ pokes < MaxPokes /\ pokes' = pokes + 1
  /\ UNCHANGED <<pending, raises, sleepers, lock, event, pc, engine, wait>>

NobodySleeps(c) ==
  /\ Step(c, "look", "idle")
  /\ sleepers = 0
  /\ UNCHANGED <<shared, lock, event, pc, engine, wait>>

SomeoneSleeps(c) ==
  /\ Step(c, "look", "wake")
  /\ sleepers # 0
  /\ UNCHANGED <<shared, lock, event, pc, engine, wait>>

(* wakeSleepers() under POSIX.  A notification reaches only a thread that  *)
(* is already blocked.                                                     *)
Notified(p) == IF p = "asleep" THEN "relock" ELSE p

(* Mutant: the lock is not taken around the notification.                  *)
LockToWakeMutant(c) ==
  /\ ~windows
  /\ Step(c, "wake", "idle")
  /\ pc' = Notified(pc)
  /\ UNCHANGED <<shared, lock, event, engine, wait>>

LockToWake(c) ==
  /\ ~windows
  /\ Step(c, "wake", "notify")
  /\ lock = Free /\ lock' = c
  /\ UNCHANGED <<shared, event, pc, engine, wait>>

Notify(c) ==
  /\ Step(c, "notify", "idle")
  /\ pc' = Notified(pc)
  /\ lock' = Free
  /\ UNCHANGED <<shared, event, engine, wait>>

(* wakeSleepers() under Windows.                                           *)
SignalEvent(c) ==
  /\ windows
  /\ Step(c, "wake", "idle")
  /\ event' = TRUE
  /\ UNCHANGED <<shared, lock, pc, engine, wait>>

-----------------------------------------------------------------------------
(* The machine's step.                                                     *)

Goto(from, to) == pc = from /\ pc' = to

Poll ==
  /\ Goto("poll", "peek")
  /\ seen' = raises
  /\ UNCHANGED <<shared, lock, event, at, enabled, halted, consumed, wait>>

Lowest(n) == n \in pending /\ \A k \in pending : n <= k

(* A dispatch ends the halt, counts as the wake-up, and masks.             *)
Deliver ==
  /\ Goto("peek", "settle")
  /\ enabled
  /\ \E n \in Numbers :
       /\ Lowest(n)
       /\ pending' = pending \ {n}
       /\ IF n \in Bound THEN consumed' = seen /\ halted' = FALSE /\ enabled' = FALSE
                         ELSE UNCHANGED <<consumed, halted, enabled>>
  /\ UNCHANGED <<raises, pokes, sleepers, lock, event, at, seen, wait>>

NothingToDeliver ==
  /\ Goto("peek", "settle")
  /\ pending = {} \/ ~enabled
  /\ UNCHANGED <<shared, lock, event, at, engine, wait>>

Awake ==
  /\ Goto("settle", "run")
  /\ ~halted
  /\ UNCHANGED <<shared, lock, event, at, engine, wait>>

Wake ==
  /\ Goto("settle", "run")
  /\ halted /\ seen # consumed
  /\ consumed' = seen /\ halted' = FALSE
  /\ UNCHANGED <<shared, lock, event, at, enabled, seen, wait>>

(* haltedStep with nothing scheduled: waitForRaise(raisesSeen, ...).       *)
Sleep ==
  /\ pc = "settle" /\ pc' = IF windows THEN "register" ELSE "lock"
  /\ halted /\ seen = consumed
  /\ expired' = FALSE
  /\ UNCHANGED <<shared, lock, event, at, engine, base, windows>>

(* haltedStep with an event scheduled services it instead.                 *)
ServiceEvents ==
  /\ Goto("settle", "poll")
  /\ halted /\ seen = consumed
  /\ UNCHANGED <<shared, lock, event, at, engine, wait>>

(* Any instruction but HALT; STI, CLI and IRET among them.                 *)
Execute ==
  /\ Goto("run", "poll")
  /\ enabled' \in BOOLEAN
  /\ UNCHANGED <<shared, lock, event, at, halted, consumed, seen, wait>>

Halt ==
  /\ Goto("run", "poll")
  /\ IF raises # consumed THEN consumed' = raises /\ UNCHANGED halted
                          ELSE halted' = TRUE /\ UNCHANGED consumed
  /\ UNCHANGED <<shared, lock, event, at, enabled, seen, wait>>

-----------------------------------------------------------------------------
(* waitForRaise().  The callers' side holds the lock only to notify.       *)

TakeLock ==
  /\ Goto("lock", "register")
  /\ lock = Free /\ lock' = Machine
  /\ UNCHANGED <<shared, event, at, engine, wait>>

Register ==
  /\ Goto("register", "pokes")
  /\ sleepers' = sleepers + 1
  /\ UNCHANGED <<pending, raises, pokes, lock, event, at, engine, wait>>

ReadPokes ==
  /\ Goto("pokes", "test")
  /\ base' = pokes
  /\ UNCHANGED <<shared, lock, event, at, engine, expired, windows>>

(* The condition variable's predicate, and the loop's condition.           *)
Test ==
  /\ Goto("test", IF raises # seen \/ pokes # base THEN "leave" ELSE "block")
  /\ UNCHANGED <<shared, lock, event, at, engine, wait>>

(* The lock is given up and the thread blocks in one step.  Under Windows  *)
(* the loop looks at the clock before it waits.                            *)
Block ==
  /\ Goto("block", "asleep")
  /\ windows => ~expired
  /\ lock' = Free
  /\ UNCHANGED <<shared, event, at, engine, wait>>

DeadlinePasses ==
  /\ pc \in {"register", "pokes", "test", "block", "asleep"}
  /\ ~expired /\ expired' = TRUE
  /\ UNCHANGED <<shared, lock, event, at, pc, engine, base, windows>>

(* Windows: the clock ends the loop.                                       *)
GiveUp ==
  /\ windows /\ expired
  /\ Goto("block", "leave")
  /\ UNCHANGED <<shared, lock, event, at, engine, wait>>

(* Windows: the event is consumed by the wait it ends.                     *)
EventWakes ==
  /\ windows /\ event
  /\ Goto("asleep", "test")
  /\ event' = FALSE
  /\ UNCHANGED <<shared, lock, at, engine, wait>>

(* The timer, which Windows may fire a little early; a condition variable  *)
(* may wake for nothing at any time.                                       *)
WakesUnasked ==
  /\ Goto("asleep", IF windows THEN "test" ELSE "relock")
  /\ UNCHANGED <<shared, lock, event, at, engine, wait>>

(* Mutant: a waiter that was woken does not look at the counts again.      *)
RelockMutant ==
  /\ Goto("relock", "leave")
  /\ lock = Free /\ lock' = Machine
  /\ UNCHANGED <<shared, event, at, engine, wait>>

(* A wait that timed out ends whatever the predicate says.                 *)
Relock ==
  /\ pc = "relock" /\ pc' = IF expired THEN "leave" ELSE "test"
  /\ lock = Free /\ lock' = Machine
  /\ UNCHANGED <<shared, event, at, engine, wait>>

(* The result is not looked at: haltedStep returns to the loop around it.  *)
Leave ==
  /\ Goto("leave", "poll")
  /\ sleepers' = sleepers - 1
  /\ lock' = Free
  /\ UNCHANGED <<pending, raises, pokes, event, at, engine, wait>>

-----------------------------------------------------------------------------
Announce(c) ==
  CountRaise(c) \/ NobodySleeps(c) \/ SomeoneSleeps(c) \/ LockToWake(c) \/ Notify(c) \/ SignalEvent(c)

MachineStep ==
  \/ Poll \/ Deliver \/ NothingToDeliver \/ Awake \/ Wake \/ Sleep \/ ServiceEvents
  \/ Execute \/ Halt
  \/ TakeLock \/ Register \/ ReadPokes \/ Test \/ Block \/ GiveUp \/ EventWakes \/ Relock \/ Leave

Next ==
  \/ \E c \in Callers : SetPending(c) \/ Poke(c) \/ Announce(c)
  \/ MachineStep
  \/ DeadlinePasses \/ WakesUnasked

(* A thread that can go on does.  Nothing is assumed of the deadline, of   *)
(* stray wake-ups, or of when anything is raised.                          *)
Fairness ==
  /\ WF_vars(MachineStep)
  /\ \A c \in Callers : WF_vars(Announce(c))

Spec == Init /\ [][Next]_vars
FairSpec == Spec /\ Fairness

-----------------------------------------------------------------------------
(* What it is for.                                                         *)

Coming == \E c \in Callers : at[c] \in {"look", "wake", "notify"}

(* No wake-up is lost: whenever the machine is asleep after a raise or a   *)
(* poke it did not see, someone is still on the way to wake it             *)
(* (raise(), poke() and waitForRaise(), interrupt_controller.h:59).        *)
NoLostWake ==
  (pc = "asleep" /\ (raises # seen \/ pokes # base)) => (event \/ Coming)

(* A halted machine with a request raised since its last wake goes on,     *)
(* whether or not the wait's deadline ever comes (step(), waitForRaise()). *)
RaiseEndsHalt == (halted /\ raises # consumed) ~> ~halted

(* The controller is the event count of WakeUp: a wait ends for a reason,  *)
(* and a raise or a poke is reason enough.                                 *)
Waiting == pc \in {"test", "block", "asleep", "relock"}
Promise == INSTANCE WakeUp WITH waiting <- Waiting, expired <- expired /\ Waiting
WakeUpSpec == Promise!Spec
=============================================================================
