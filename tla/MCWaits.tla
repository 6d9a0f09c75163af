------------------------------- MODULE MCWaits -------------------------------
(* How a halted machine comes to go on: by a raise of another thread, or by   *)
(* the event its clock is due to service.  A behaviour is of one of the two.  *)
EXTENDS InterruptController, DeviceClock

(* Two threads that call, one number with a handler and one without.          *)
CONSTANTS device, host
MCNumbers == {16, 17}
MCBound == {17}

(* All the devices, on a clock faster and one slower than the nanoseconds.    *)
(* On the fast one an alarm can be set past the last cycle.                   *)
MCDevices == {Timer, Dma, Gpu}
MCTags == {Countdown, Alarm}
MCRates == {[hz |-> 3, nanos |-> 2], [hz |-> 2, nanos |-> 5]}

VARIABLE timed   \* the behaviour is the clock's

WaitsVars == <<timed, vars, clockVars>>
WaitsIdle == Init /\ ~windows
ClockIdle == rate = [hz |-> 3, nanos |-> 2] /\ copy = [request |-> "inside", busy |-> FALSE] /\ ClockAt("look")
WaitsInit == (timed = FALSE /\ Init /\ ClockIdle) \/ (timed = TRUE /\ WaitsIdle /\ ClockInit)
WaitsNext ==
  /\ UNCHANGED timed
  /\ \/ ~timed /\ Next /\ UNCHANGED clockVars
     \/ timed /\ ClockNext /\ UNCHANGED vars
(* The machine's thread and the callers go on, and so does the service loop.  *)
WaitsFair ==
  /\ WF_WaitsVars(~timed /\ MachineStep /\ UNCHANGED <<timed, clockVars>>)
  /\ \A c \in Callers : WF_WaitsVars(~timed /\ Announce(c) /\ UNCHANGED <<timed, clockVars>>)
  /\ WF_WaitsVars(timed /\ Service /\ UNCHANGED <<timed, vars>>)
WaitsSpec == WaitsInit /\ [][WaitsNext]_WaitsVars /\ WaitsFair
=============================================================================
