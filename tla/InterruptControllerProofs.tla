---------------------- MODULE InterruptControllerProofs ----------------------
(***************************************************************************)
(* InterruptController, for any number of callers and either sleep: the    *)
(* type invariant, that no wake-up is lost, and that every step is a step  *)
(* of WakeUp or changes nothing WakeUp sees.                               *)
(***************************************************************************)
EXTENDS InterruptController, TLAPS

(* Who is counted as asleep.                                               *)
Counted == {"pokes", "test", "block", "asleep", "relock", "leave"}
SleepersCounted == sleepers = IF pc \in Counted THEN 1 ELSE 0

(* Where the machine holds the mutex, and where a caller does.             *)
Holding == {"register", "pokes", "test", "block", "leave"}
LockOwned ==
  /\ ~windows => (lock = Machine <=> pc \in Holding)
  /\ \A c \in Callers : at[c] = "notify" => lock = c

(* What only one of the platforms does.                                    *)
PlatformInv == windows => \A c \in Callers : at[c] # "notify"

(* The loss-free wake, from the test on: a machine about to block is       *)
(* already owed what comes after it looked.                                *)
Owed ==
  (pc \in {"block", "asleep"} /\ (raises # seen \/ pokes # base)) => (event \/ Coming)

IInv == TypeOK /\ SleepersCounted /\ LockOwned /\ PlatformInv /\ Owed

(* The constants' assumptions.                                             *)
LEMMA Threads == Machine # Free /\ Machine \notin Callers /\ Free \notin Callers
BY ThreadAssumption

LEMMA InitOK == Init => IInv
<1>. SUFFICES ASSUME Init PROVE IInv
  OBVIOUS
<1>1. TypeOK
  <2>1. at \in [Callers -> {"idle", "count", "look", "wake", "notify"}]
    BY DEF Init
  <2>2. raises \in Nat /\ pokes \in Nat /\ sleepers \in 0 .. 1
        /\ consumed \in Nat /\ seen \in Nat /\ base \in Nat
    BY DEF Init
  <2>3. lock \in Callers \cup {Machine, Free} /\ pc \in {"poll", "peek", "settle", "run"} \cup InWait
    BY DEF Init
  <2>. QED BY <2>1, <2>2, <2>3 DEF Init, TypeOK
<1>2. SleepersCounted /\ Owed
  BY DEF Init, SleepersCounted, Counted, Owed
<1>3. LockOwned /\ PlatformInv
  BY Threads DEF Init, LockOwned, Holding, PlatformInv
<1>. QED BY <1>1, <1>2, <1>3 DEF IInv

LEMMA CallerOK ==
  ASSUME IInv, NEW c \in Callers, SetPending(c) \/ Poke(c) \/ Announce(c)
  PROVE  IInv'
<1>. USE Threads DEF IInv, shared, engine, wait
<1>1. CASE SetPending(c)
  BY <1>1 DEF SetPending, Step, TypeOK, InWait, SleepersCounted, Counted, LockOwned, Holding, PlatformInv, Owed, Coming
<1>2. CASE Poke(c)
  BY <1>2 DEF Poke, Step, TypeOK, InWait, SleepersCounted, Counted, LockOwned, Holding, PlatformInv, Owed, Coming
<1>3. CASE CountRaise(c)
  BY <1>3 DEF CountRaise, Step, TypeOK, InWait, SleepersCounted, Counted, LockOwned, Holding, PlatformInv, Owed, Coming
<1>4. CASE NobodySleeps(c)
  BY <1>4 DEF NobodySleeps, Step, TypeOK, InWait, SleepersCounted, Counted, LockOwned, Holding, PlatformInv, Owed, Coming
<1>5. CASE SomeoneSleeps(c)
  BY <1>5 DEF SomeoneSleeps, Step, TypeOK, InWait, SleepersCounted, Counted, LockOwned, Holding, PlatformInv, Owed, Coming
<1>6. CASE LockToWake(c)
  BY <1>6 DEF LockToWake, Step, TypeOK, InWait, SleepersCounted, Counted, LockOwned, Holding, PlatformInv, Owed, Coming
<1>7. CASE Notify(c)
  BY <1>7 DEF Notify, Notified, Step, TypeOK, InWait, SleepersCounted, Counted, LockOwned, Holding, PlatformInv, Owed, Coming
<1>8. CASE SignalEvent(c)
  BY <1>8 DEF SignalEvent, Step, TypeOK, InWait, SleepersCounted, Counted, LockOwned, Holding, PlatformInv, Owed, Coming
<1>. QED BY <1>1, <1>2, <1>3, <1>4, <1>5, <1>6, <1>7, <1>8 DEF Announce

LEMMA StepOK == ASSUME IInv, MachineStep PROVE IInv'
<1>. USE Threads DEF IInv, shared, engine, wait, Goto
<1>1. CASE Poll
  BY <1>1 DEF Poll, TypeOK, InWait, SleepersCounted, Counted, LockOwned, Holding, PlatformInv, Owed, Coming
<1>2. CASE Deliver
  BY <1>2 DEF Deliver, TypeOK, InWait, SleepersCounted, Counted, LockOwned, Holding, PlatformInv, Owed, Coming
<1>3. CASE NothingToDeliver \/ Awake \/ Wake \/ ServiceEvents
  <2>1. TypeOK'
    BY <1>3 DEF NothingToDeliver, Awake, Wake, ServiceEvents, TypeOK, InWait
  <2>2. SleepersCounted' /\ Owed'
    BY <1>3 DEF NothingToDeliver, Awake, Wake, ServiceEvents, SleepersCounted, Counted, Owed, Coming
  <2>3. PlatformInv' /\ LockOwned'
    BY <1>3 DEF NothingToDeliver, Awake, Wake, ServiceEvents, LockOwned, Holding, PlatformInv
  <2>. QED BY <2>1, <2>2, <2>3
<1>4. CASE Sleep
  <2>1. TypeOK'
    <3>1. pc' \in {"register", "lock"}
      BY <1>4 DEF Sleep
    <3>. QED BY <1>4, <3>1 DEF Sleep, TypeOK, InWait
  <2>2. SleepersCounted' /\ Owed'
    BY <1>4 DEF Sleep, SleepersCounted, Counted, Owed, Coming
  <2>3. PlatformInv' /\ LockOwned'
    <3>1. CASE windows = TRUE
      BY <1>4, <3>1 DEF Sleep, LockOwned, PlatformInv
    <3>2. CASE windows = FALSE
      BY <1>4, <3>2 DEF Sleep, LockOwned, Holding, PlatformInv
    <3>. QED BY <3>1, <3>2 DEF TypeOK
  <2>. QED BY <2>1, <2>2, <2>3
<1>5. CASE Execute \/ Halt
  <2>1. TypeOK'
    BY <1>5 DEF Execute, Halt, TypeOK, InWait
  <2>2. SleepersCounted' /\ Owed'
    BY <1>5 DEF Execute, Halt, SleepersCounted, Counted, Owed, Coming
  <2>3. PlatformInv' /\ LockOwned'
    <3>1. CASE windows = TRUE
      BY <1>5, <3>1 DEF Execute, Halt, LockOwned, PlatformInv
    <3>2. CASE windows = FALSE
      BY <1>5, <3>2 DEF Execute, Halt, LockOwned, Holding, PlatformInv
    <3>. QED BY <3>1, <3>2 DEF TypeOK
  <2>. QED BY <2>1, <2>2, <2>3
<1>6. CASE TakeLock
  BY <1>6 DEF TakeLock, TypeOK, InWait, SleepersCounted, Counted, LockOwned, Holding, PlatformInv, Owed, Coming
<1>7. CASE Register \/ ReadPokes
  BY <1>7 DEF Register, ReadPokes, TypeOK, InWait, SleepersCounted, Counted, LockOwned, Holding, PlatformInv, Owed, Coming
<1>8. CASE Test
  BY <1>8 DEF Test, TypeOK, InWait, SleepersCounted, Counted, LockOwned, Holding, PlatformInv, Owed, Coming
<1>9. CASE Block
  <2>1. TypeOK'
    BY <1>9 DEF Block, TypeOK, InWait
  <2>2. SleepersCounted' /\ Owed'
    BY <1>9 DEF Block, SleepersCounted, Counted, Owed, Coming
  <2>3. PlatformInv' /\ LockOwned'
    <3>1. CASE windows = TRUE
      BY <1>9, <3>1 DEF Block, LockOwned, PlatformInv
    <3>2. CASE windows = FALSE
      BY <1>9, <3>2 DEF Block, LockOwned, Holding, PlatformInv
    <3>. QED BY <3>1, <3>2 DEF TypeOK
  <2>. QED BY <2>1, <2>2, <2>3
<1>10. CASE GiveUp \/ EventWakes
  <2>1. TypeOK'
    BY <1>10 DEF GiveUp, EventWakes, TypeOK, InWait
  <2>2. SleepersCounted' /\ Owed'
    <3>1. CASE GiveUp
      BY <3>1 DEF GiveUp, SleepersCounted, Counted, Owed, Coming
    <3>2. CASE EventWakes
      BY <3>2 DEF EventWakes, SleepersCounted, Counted, Owed, Coming
    <3>. QED BY <1>10, <3>1, <3>2
  <2>3. windows = TRUE /\ windows' = TRUE
    BY <1>10 DEF GiveUp, EventWakes, TypeOK
  <2>4. LockOwned' /\ PlatformInv'
    BY <1>10, <2>3 DEF GiveUp, EventWakes, LockOwned, PlatformInv
  <2>. QED BY <2>1, <2>2, <2>4
<1>11. CASE Relock
  BY <1>11 DEF Relock, TypeOK, InWait, SleepersCounted, Counted, LockOwned, Holding, PlatformInv, Owed, Coming
<1>12. CASE Leave
  BY <1>12 DEF Leave, TypeOK, InWait, SleepersCounted, Counted, LockOwned, Holding, PlatformInv, Owed, Coming
<1>. QED BY <1>1, <1>2, <1>3, <1>4, <1>5, <1>6, <1>7, <1>8, <1>9, <1>10, <1>11, <1>12 DEF MachineStep

LEMMA ClockOK == ASSUME IInv, DeadlinePasses \/ WakesUnasked PROVE IInv'
<1>. USE Threads DEF IInv, shared, engine, wait, Goto
<1>1. CASE DeadlinePasses
  BY <1>1 DEF DeadlinePasses, TypeOK, InWait, SleepersCounted, Counted, LockOwned, Holding, PlatformInv, Owed, Coming
<1>2. CASE WakesUnasked
  <2>1. TypeOK'
    BY <1>2 DEF WakesUnasked, TypeOK, InWait
  <2>2. SleepersCounted' /\ Owed'
    BY <1>2 DEF WakesUnasked, SleepersCounted, Counted, Owed, Coming
  <2>3. PlatformInv' /\ LockOwned'
    <3>1. CASE windows = TRUE
      BY <1>2, <3>1 DEF WakesUnasked, LockOwned, PlatformInv
    <3>2. CASE windows = FALSE
      BY <1>2, <3>2 DEF WakesUnasked, LockOwned, Holding, PlatformInv
    <3>. QED BY <3>1, <3>2 DEF TypeOK
  <2>. QED BY <2>1, <2>2, <2>3
<1>. QED BY <1>1, <1>2

LEMMA StutterOK == ASSUME IInv, UNCHANGED vars PROVE IInv'
BY DEF vars, shared, engine, wait, IInv, TypeOK, SleepersCounted, LockOwned, PlatformInv, Owed, Coming

(* The invariant: who is counted as asleep, who holds the mutex, and that  *)
(* a machine about to block is owed whatever it has not seen.              *)
THEOREM InductiveInvariant == Spec => []IInv
<1>1. ASSUME IInv, [Next]_vars PROVE IInv'
  <2>1. CASE UNCHANGED vars
    BY <1>1, <2>1, StutterOK
  <2>2. CASE \E c \in Callers : SetPending(c) \/ Poke(c) \/ Announce(c)
    BY <1>1, <2>2, CallerOK
  <2>3. CASE MachineStep
    BY <1>1, <2>3, StepOK
  <2>4. CASE DeadlinePasses \/ WakesUnasked
    BY <1>1, <2>4, ClockOK
  <2>. QED BY <1>1, <2>1, <2>2, <2>3, <2>4 DEF Next
<1>. QED BY InitOK, <1>1, PTL DEF Spec

(* Every reachable state is well typed; in particular at most one sleeper  *)
(* is counted (_sleepers).                                                 *)
THEOREM TypeCorrect == Spec => []TypeOK
<1>1. IInv => TypeOK BY DEF IInv
<1>. QED BY InductiveInvariant, <1>1, PTL

(* No wake-up is lost, however many threads raise and poke (raise(),       *)
(* poke() and waitForRaise()).                                             *)
THEOREM WakeUpsArrive == Spec => []NoLostWake
<1>1. IInv => NoLostWake BY DEF IInv, Owed, NoLostWake
<1>. QED BY InductiveInvariant, <1>1, PTL

-----------------------------------------------------------------------------
(* The controller implements the safety of WakeUp.                         *)

LEMMA PromiseInit == Init => Promise!Init
BY DEF Init, Promise!Init, Waiting

LEMMA CallerPromise ==
  ASSUME IInv, NEW c \in Callers, SetPending(c) \/ Poke(c) \/ Announce(c)
  PROVE  [Promise!Next]_(Promise!wakeVars)
<1>. USE DEF shared, engine, wait, Waiting, Promise!wakeVars, Promise!Next
<1>1. CASE CountRaise(c)
  BY <1>1 DEF CountRaise, Promise!Raise
<1>2. CASE Poke(c)
  BY <1>2 DEF Poke, Promise!Poke
<1>3. CASE SetPending(c) \/ NobodySleeps(c) \/ SomeoneSleeps(c) \/ LockToWake(c) \/ SignalEvent(c)
  BY <1>3 DEF SetPending, NobodySleeps, SomeoneSleeps, LockToWake, SignalEvent
<1>4. CASE Notify(c)
  BY <1>4 DEF Notify, Notified
<1>. QED BY <1>1, <1>2, <1>3, <1>4 DEF Announce

LEMMA StepPromise ==
  ASSUME IInv, MachineStep \/ DeadlinePasses \/ WakesUnasked
  PROVE  [Promise!Next]_(Promise!wakeVars)
<1>. USE DEF shared, engine, wait, Waiting, Goto, Promise!wakeVars, Promise!Next
<1>1. CASE Poll
  BY <1>1 DEF Poll, Promise!Look
<1>2. CASE Deliver \/ NothingToDeliver \/ Awake \/ Wake \/ ServiceEvents \/ Execute \/ Halt
  BY <1>2 DEF Deliver, NothingToDeliver, Awake, Wake, ServiceEvents, Execute, Halt
<1>3. CASE Sleep \/ TakeLock \/ Register
  BY <1>3 DEF Sleep, TakeLock, Register
<1>4. CASE ReadPokes
  BY <1>4 DEF ReadPokes, Promise!BeginWait, IInv, TypeOK
<1>5. CASE Test
  BY <1>5 DEF Test, Promise!EndWait, Promise!Called
<1>6. CASE Block \/ EventWakes \/ WakesUnasked
  BY <1>6 DEF Block, EventWakes, WakesUnasked
<1>7. CASE GiveUp
  BY <1>7 DEF GiveUp, Promise!EndWait
<1>8. CASE Relock
  BY <1>8 DEF Relock, Promise!EndWait
<1>9. CASE Leave
  BY <1>9 DEF Leave
<1>10. CASE DeadlinePasses
  BY <1>10 DEF DeadlinePasses, Promise!Expire
<1>. QED BY <1>1, <1>2, <1>3, <1>4, <1>5, <1>6, <1>7, <1>8, <1>9, <1>10 DEF MachineStep

(* Every step of the controller, under either sleep, is a step of the      *)
(* event count or one it does not see: a wait ends only for a raise, a     *)
(* poke or its deadline (waitForRaise()).                                  *)
THEOREM KeepsPromise == Spec => Promise!Safety
<1>1. IInv /\ [Next]_vars => [Promise!Next]_(Promise!wakeVars)
  <2>. SUFFICES ASSUME IInv, [Next]_vars PROVE [Promise!Next]_(Promise!wakeVars)
    OBVIOUS
  <2>1. CASE UNCHANGED vars
    BY <2>1 DEF vars, shared, engine, wait, Promise!wakeVars, Waiting
  <2>2. CASE \E c \in Callers : SetPending(c) \/ Poke(c) \/ Announce(c)
    BY <2>2, CallerPromise
  <2>3. CASE MachineStep \/ DeadlinePasses \/ WakesUnasked
    BY <2>3, StepPromise
  <2>. QED BY <2>1, <2>2, <2>3 DEF Next
<1>. QED BY PromiseInit, InductiveInvariant, <1>1, PTL DEF Spec, Promise!Safety
=============================================================================
